---- MODULE Spec2Model ----
(***************************************************************************)
(* The feature queue of the coordination engine: the SQLite "features"    *)
(* table (src/api/database.py), the MCP tools that workers call on it      *)
(* (src/mcp_server/feature_mcp.py) and the REST handlers of the server     *)
(* (src/server/routers/features.py).                                       *)
(*                                                                         *)
(* Every worker session runs its own feature_mcp process, and the server   *)
(* is one more process: all of them open the same features.db.  A tool     *)
(* loads rows with SELECTs, changes the loaded objects and commits.  The   *)
(* pysqlite driver opens a transaction only at the first INSERT/UPDATE,    *)
(* so the rows a tool loaded are not protected until its flush: another    *)
(* process may commit between a tool's SELECT and its COMMIT.  A tool is   *)
(* therefore a *Read step (its SELECTs and checks, taken at one instant)   *)
(* followed by a *Commit step (its flush and commit, which SQLite makes    *)
(* atomic); feature_get_next, whose answer is that of two SELECTs, has one *)
(* step for each.  The ORM writes only the columns whose new value differs *)
(* from the loaded one.  The rows carry the columns the tools decide on:   *)
(* priority, passes, in_progress, is_decomposed, parent_id.                *)
(*                                                                         *)
(* Beside the table stand the attempts file of stuck detection             *)
(* (src/progress.py), the loop of an agent process (src/agent.py) and the  *)
(* orchestrator of the server, which spawns, starts and stops the agents   *)
(* of a project (src/server/services/multi_agent_manager.py).              *)
(* The registry database (src/registry.py), the usage totals of the agent  *)
(* loop (src/usage_tracking.py) and the git worktrees of the agents        *)
(* (src/server/services/worktree_manager.py) have their own sections.      *)
(***************************************************************************)
EXTENDS Integers, Sequences, FiniteSets, TLC

\* ------------------------------------------------------------------ bounds
\* Rows the table may hold, for each specification.
\* Spec: two sessions that create, lock, dequeue and decompose.
MaxFeatures == 3
\* SpecShift: a dequeue beside a decomposition that shifts a feature.
ShiftMaxFeatures == 4
\* SpecSeq: one session that creates, skips and decomposes.
SeqMaxFeatures == 5
\* SpecFamily: one session, a parent and its sub-features.
FamilyMaxFeatures == 3
\* SpecServer and SpecSkip: one session beside a handler of the server.
ServerMaxFeatures == 2
\* SpecQueue: one session that creates, locks, skips and dequeues.
QueueMaxFeatures == 3
\* SpecAgent: the loop of one agent process and the tools of its sessions.
AgentMaxFeatures == 2
\* SpecUnstick: one session that decomposes features attempts are counted for.
UnstickMaxFeatures == 3
\* SpecUnstick: features that the attempts file counts at one time.
MaxCounted == 2
\* SpecBulk: one session and the server, both creating features in bulk.
BulkMaxFeatures == 3
\* SpecManager: the orchestrator and the agent processes it supervises.
ManagerMaxFeatures == 2
\* Largest max_parallel_agents that PUT /config is given (the handler takes
\* 1 to 10).
MaxParallelAgents == 2
\* SpecStuck: feature ids that attempts are recorded for, and the largest
\* count recorded for one of them.
MaxStuckFeatures == 3
MaxAttempts == 4
\* SpecLocks: largest feature id handed to lock_feature and unlock_feature.
MaxLocked == 2
\* SpecUsage: rows of the table, the largest limit, the largest cost of one
\* session and the largest total.
UsageMaxFeatures == 1
MaxLimit == 2
MaxCost == 2
MaxUsage == 3
\* SpecContention: most attempts in a row that find the registry locked.
MaxContention == 4
\* SpecMerge: versions that a commit gives a file, beside version 0.
MaxVersion == 2
\* SpecDelete: rows of the table.
DeleteMaxFeatures == 3
\* SpecChildren: rows of the table, and the longest sub_features list.
ChildrenMaxFeatures == 8
MaxManyChildren == 6
\* Longest sub_features list handed to feature_decompose.
MaxChildren == 3
\* Longest features list handed to feature_create_bulk.
MaxBulk == 2
\* Largest priority a "max + 1" may produce (skip, bulk create), also after
\* the one jump by SKIP_OFFSET that the bounds leave room for.
MaxPriority == 5
CascadeMaxFeatures == 5
DrainMaxFeatures == 5
RaceMaxFeatures == 3
MaxRecorded == 2
MaxRecordedFeatures == 2

\* skip_feature of the server: "(max_priority.priority ...) + 1000".
SKIP_OFFSET == 1000

\* SQLITE_MAX_RETRIES = 3 of registry.py: the attempts of _with_retry.
SQLITE_MAX_RETRIES == 3

\* MAX_FEATURE_ATTEMPTS = int(os.environ.get("NEXUS_MAX_FEATURE_ATTEMPTS", "3"))
MAX_FEATURE_ATTEMPTS == 3

\* The concurrent worker sessions, each with its own feature_mcp process.
Workers == {"w1", "w2"}

\* The server process, whose handlers open their own sessions on features.db.
Server == "api"

Procs == Workers \cup {Server}

\* ------------------------------------------------------------ the table
\* The two columns the tools and the tests use (Feature.is_decomposed,
\* Feature.parent_id) with the values a new row gets when the constructor
\* is not given them; parent_id 0 stands for None.
DecompositionColumns == [is_decomposed |-> FALSE, parent_id |-> 0]

\* Feature(priority=..., passes=False[, parent_id=...]): a new row.
NewFeature(priority, parent) ==
  [priority |-> priority, passes |-> FALSE, in_progress |-> FALSE,
   is_decomposed |-> DecompositionColumns.is_decomposed, parent_id |-> parent]

\* A loaded object that stands for "no row".
NoRow == NewFeature(0, DecompositionColumns.parent_id)

Ids(s) == DOMAIN s

MaxOf(S) == CHOOSE x \in S : \A y \in S : y <= x

\* The largest priority itself, without the "+ 1".
LargestPriority(s) ==
  IF Ids(s) = {} THEN 1 ELSE MaxOf({s[i].priority : i \in Ids(s)})

\* order_by(Feature.priority.desc()).first(), then "+ 1 ... else 1".
NextPriority(s) ==
  IF Ids(s) = {} THEN 1 ELSE MaxOf({s[i].priority : i \in Ids(s)}) + 1

\* The rowid SQLite gives an INSERT: one more than the largest in the table.
NextId(s) == IF Ids(s) = {} THEN 1 ELSE MaxOf(Ids(s)) + 1

\* The INSERT of the rows into a table that was emptied first.
InsertInEmptied(s, rows) == [i \in 1..Len(rows) |-> rows[i]]

\* session.add of the rows in the sequence rows, in order, and their INSERT.
Insert(s, rows) ==
  LET base == NextId(s) - 1
      new == {base + k : k \in 1..Len(rows)}
  IN [i \in Ids(s) \cup new |-> IF i \in Ids(s) THEN s[i] ELSE rows[i - base]]

\* The UPDATE the ORM flushes for one object: only the columns whose value
\* differs from the loaded one are written, the others keep the table's value.
UpdateRow(s, id, loaded, new) ==
  [s EXCEPT ![id] =
    [priority      |-> IF new.priority # loaded.priority
                       THEN new.priority ELSE s[id].priority,
     passes        |-> IF new.passes # loaded.passes
                       THEN new.passes ELSE s[id].passes,
     in_progress   |-> IF new.in_progress # loaded.in_progress
                       THEN new.in_progress ELSE s[id].in_progress,
     is_decomposed |-> IF new.is_decomposed # loaded.is_decomposed
                       THEN new.is_decomposed ELSE s[id].is_decomposed,
     parent_id     |-> IF new.parent_id # loaded.parent_id
                       THEN new.parent_id ELSE s[id].parent_id]]

\* ---------------------------------------------------------------- state
VARIABLES
  store,       \* the committed features table: id -> row
  pc,          \* per process: where its current call stands
  loc,         \* per process: what its current call has loaded
  last,        \* the call that returned in the step leading here, if any
  everPassed,  \* history: ids that have had passes = TRUE
  attempts,    \* the file .feature_attempts: (feature id, count) in file order
  pending,     \* the file .pending_decomposition: a feature id, 0 when absent
  agent,       \* per worker: where the loop of its agent process stands
  agents,      \* MultiAgentManager.agents: agent id -> its process manager
  registry,    \* the project_agents rows: agent id -> the recorded row
  feature_locks, \* MultiAgentManager.feature_locks: feature id -> agent id
  config,      \* the project_configs row of the project
  manager,     \* the MultiAgentManager of the project, once it is created
  project,     \* the status column of the projects row
  git,         \* the repository of the project and the worktree of an agent
  usage,       \* the file .usage_stats.json and the limit of the environment
  loaded       \* the dict a process has read from .feature_attempts

\* The state of the agent processes, which no tool and no handler touches.
loopVars == <<pending, agent>>

\* The state of the orchestrator of the server.
managerVars == <<agents, registry, feature_locks, config, manager, project>>

\* The state beside the feature queue, its agents and their orchestrator.
sideVars == <<git, usage, loaded>>

vars == <<store, pc, loc, last, everPassed, attempts, pending, agent,
          agents, registry, feature_locks, config, manager, project, git,
          usage, loaded>>

\* The event "tool op, called by w on id, returned res" (n: rows created).
Ev(op, w, res, id, n) == [op |-> op, w |-> w, res |-> res, id |-> id, n |-> n]
NoEv == Ev("none", "none", "none", 0, 0)

\* What a tool call keeps between its steps.
\* fid: the feature id asked for; row: the loaded object; shift: the loaded
\* features_to_shift (id -> priority); n: rows to insert; prio: a priority
\* (or the parent's id) computed from the loaded rows.
Loc(fid, row, shift, n, prio) ==
  [fid |-> fid, row |-> row, shift |-> shift, n |-> n, prio |-> prio]
NoLoc == Loc(0, NoRow, << >>, 0, 0)
\* A call that has loaded one row.
RowLoc(fid, row, prio) == Loc(fid, row, << >>, 0, prio)

\* The locals of run_autonomous_agent: phase is the place in the loop
\* ("stopped": no process), first is is_first_run, mode is decomposition_mode,
\* before and passing are feature_id_before and passing_before.
AgentAt(phase, first, mode, before, passing) ==
  [phase |-> phase, first |-> first, mode |-> mode,
   before |-> before, passing |-> passing]
NoAgent == AgentAt("stopped", FALSE, FALSE, 0, 0)

\* The process manager of one agent (AgentProcessManager): its status, and
\* the features whose lock its worker holds.
Supervisor(status, held) == [status |-> status, held |-> held]
NewSupervisor == Supervisor("stopped", {})

\* A row of project_agents (ProjectAgent): its status, its pid and its
\* current_feature_id, 0 for a column that is NULL.
ProjectAgent(status, pid, current_feature_id) ==
  [status |-> status, pid |-> pid, current_feature_id |-> current_feature_id]
\* create_project_agent: status="stopped", the other two columns not given.
NewProjectAgent == ProjectAgent("stopped", 0, 0)

\* update_project_agent(status, pid, current_feature_id): "if status is not
\* None: agent.status = status" and the same for the other two; "none" and 0
\* stand for an argument that is None.
UpdateProjectAgent(row, status, pid, current_feature_id) ==
  ProjectAgent(IF status # "none" THEN status ELSE row.status,
               IF pid # 0 THEN pid ELSE row.pid,
               IF current_feature_id # 0 THEN current_feature_id
               ELSE row.current_feature_id)

\* ProjectConfig: max_parallel_agents default=1, auto_stop_on_completion
\* default=True.
ProjectConfig(max, auto) ==
  [max_parallel_agents |-> max, auto_stop_on_completion |-> auto]
DefaultConfig == ProjectConfig(1, TRUE)

\* total_cost_usd of .usage_stats.json, in units of the limit, and
\* MAX_COST_USD of the environment of the agent processes, 0 for no limit.
\* The token total and MAX_TOKENS are counted and compared the same way.
Usage(total, limit) == [total |-> total, limit |-> limit]
NoUsage == Usage(0, 0)

\* The files of the repository, each with the version of its content.
Files == {"a", "b"}
Contents == [Files -> 0..MaxVersion]

\* The repository of the project: the tip of the target branch, the tip of
\* the branch agent/{agent_id} and the commit it shares with the target
\* (base), the files of the project directory (tree; -1 is a file with
\* conflict markers), whether a merge is under way there (merging), and the
\* files of the agent's worktree (copy), once it is created (exists).
Repository(exists, target, branch, base, tree, merging, copy) ==
  [exists |-> exists, target |-> target, branch |-> branch, base |-> base,
   tree |-> tree, merging |-> merging, copy |-> copy]

\* git init and a first commit: every file at version 0, no worktree.
NoWorktree ==
  LET first == [f \in Files |-> 0]
  IN Repository(FALSE, first, first, first, first, FALSE, first)

\* create_database on a new project: an empty table, no call running; a
\* project registered as active, without agents, and a server that has not
\* yet been asked for the project's MultiAgentManager.
Init ==
  /\ store = << >>
  /\ pc = [w \in Procs |-> "idle"]
  /\ loc = [w \in Procs |-> NoLoc]
  /\ last = NoEv
  /\ everPassed = {}
  /\ attempts = << >>
  /\ pending = 0
  /\ agent = [w \in Workers |-> NoAgent]
  /\ agents = [w \in {} |-> NewSupervisor]
  /\ registry = [w \in {} |-> NewProjectAgent]
  /\ feature_locks = [f \in {} |-> "none"]
  /\ config = DefaultConfig
  /\ manager = [created |-> FALSE, config |-> DefaultConfig, task |-> FALSE]
  /\ project = "active"
  /\ git = NoWorktree
  /\ usage = NoUsage
  /\ loaded = [w \in Workers |-> << >>]

Return(w, ev) ==
  /\ pc' = [pc EXCEPT ![w] = "idle"]
  /\ loc' = [loc EXCEPT ![w] = NoLoc]
  /\ last' = ev

Goto(w, label, l) ==
  /\ pc' = [pc EXCEPT ![w] = label]
  /\ loc' = [loc EXCEPT ![w] = l]
  /\ last' = NoEv


\* ------------------------------------------------- the file .feature_attempts
\* The file is a JSON object that maps str(feature_id) to a count; json.loads
\* gives a dict in file order.  A file that does not exist and a file that
\* holds {} read the same: the empty sequence stands for both.

\* key in attempts
Recorded(a, id) == \E k \in DOMAIN a : a[k].id = id

\* attempts.get(key, 0)
CountOf(a, id) ==
  IF Recorded(a, id) THEN a[CHOOSE k \in DOMAIN a : a[k].id = id].count ELSE 0

\* attempts[key] = attempts.get(key, 0) + 1: a new key goes to the end.
WithAttempt(a, id) ==
  IF Recorded(a, id)
  THEN [k \in DOMAIN a |->
          IF a[k].id = id THEN [a[k] EXCEPT !.count = @ + 1] ELSE a[k]]
  ELSE Append(a, [id |-> id, count |-> 1])

\* The file written back as it was read.
WithAttemptsKept(a, id) == a

\* "if key in attempts: del attempts[key]" and the file written back.
WithoutAttempts(a, id) == SelectSeq(a, LAMBDA e : e.id # id)

\* The test with ">" in the place of ">=".
ExceedsMaxAttempts(count) == count > MAX_FEATURE_ATTEMPTS

\* "if count >= MAX_FEATURE_ATTEMPTS"
ReachedMaxAttempts(count) == count >= MAX_FEATURE_ATTEMPTS

\* "for feature_id, count in attempts.items(): if ...: return": the id of the
\* first entry of the file that passes the test, 0 for None.
FirstStuck(a) ==
  LET RECURSIVE From(_)
      From(k) == IF k > Len(a) THEN 0
                 ELSE IF ReachedMaxAttempts(a[k].count) THEN a[k].id
                 ELSE From(k + 1)
  IN From(1)

\* record_feature_attempt(project_dir, feature_id), as the agent loop calls it
\* after a session.
RecordFeatureAttempt(w, id) ==
  /\ attempts' = WithAttempt(attempts, id)
  /\ last' = Ev("record_feature_attempt", w, "ok", id, CountOf(attempts', id))

\* clear_feature_attempt(project_dir, feature_id)
ClearFeatureAttempt(w, id) ==
  /\ attempts' = WithoutAttempts(attempts, id)
  /\ last' = Ev("clear_feature_attempt", w, "ok", id, 0)

\* record_feature_attempt in a process that runs beside others on the same
\* project directory, first half: "attempts = json.loads(
\* attempts_file.read_text())", {} when the file does not exist.
RecordFeatureAttemptLoad(w, id) ==
  /\ pc[w] = "idle"
  /\ loaded' = [loaded EXCEPT ![w] = attempts]
  /\ Goto(w, "rfa_write", RowLoc(id, NoRow, 0))
  /\ UNCHANGED attempts

\* Second half: the count of the dict that was read goes up by one and
\* attempts_file.write_text writes the whole dict.
RecordFeatureAttemptWrite(w) ==
  /\ pc[w] = "rfa_write"
  /\ attempts' = WithAttempt(loaded[w], loc[w].fid)
  /\ loaded' = [loaded EXCEPT ![w] = << >>]
  /\ Return(w, Ev("record_feature_attempt", w, "ok", loc[w].fid,
                  CountOf(attempts', loc[w].fid)))

\* clear_feature_attempt beside other processes, first half: the file is
\* read; without the key nothing is written.
ClearFeatureAttemptLoad(w, id) ==
  /\ pc[w] = "idle"
  /\ UNCHANGED attempts
  /\ IF Recorded(attempts, id)
     THEN /\ loaded' = [loaded EXCEPT ![w] = attempts]
          /\ Goto(w, "cfa_write", RowLoc(id, NoRow, 0))
     ELSE /\ UNCHANGED loaded
          /\ Return(w, Ev("clear_feature_attempt", w, "absent", id, 0))

\* Second half: "del attempts[key]" and the whole dict is written.
ClearFeatureAttemptWrite(w) ==
  /\ pc[w] = "cfa_write"
  /\ attempts' = WithoutAttempts(loaded[w], loc[w].fid)
  /\ loaded' = [loaded EXCEPT ![w] = << >>]
  /\ Return(w, Ev("clear_feature_attempt", w, "ok", loc[w].fid, 0))

\* reset_stuck_detection(project_dir): the file is unlinked.
ResetStuckDetection(w) ==
  /\ attempts' = << >>
  /\ last' = Ev("reset_stuck_detection", w, "ok", 0, 0)

\* check_stuck_detection(project_dir): (is_stuck, reason), the reason naming
\* the feature found.
CheckStuckDetection(w) ==
  /\ UNCHANGED attempts
  /\ last' = Ev("check_stuck_detection", w,
                IF FirstStuck(attempts) # 0 THEN "stuck" ELSE "not_stuck",
                FirstStuck(attempts), CountOf(attempts, FirstStuck(attempts)))

\* get_stuck_feature_id(project_dir)
GetStuckFeatureId(w) ==
  /\ UNCHANGED attempts
  /\ last' = Ev("get_stuck_feature_id", w,
                IF FirstStuck(attempts) # 0 THEN "stuck" ELSE "none",
                FirstStuck(attempts), 0)

\* ---------------------------------------------------- feature_get_next
\* The first query without its passes filter.
EligibleIgnoringPasses(row) == ~row.in_progress /\ ~row.is_decomposed

\* The first query without its is_decomposed filter.
EligibleIgnoringDecomposed(row) == ~row.passes /\ ~row.in_progress

\* .filter(passes == False).filter(in_progress == False)
\* .filter(is_decomposed == False)
Eligible(row) == ~row.passes /\ ~row.in_progress /\ ~row.is_decomposed

\* The ordering with the ids descending: priority.asc(), id.desc().
BeforeIdDescending(s, i, j) ==
  \/ s[i].priority < s[j].priority
  \/ s[i].priority = s[j].priority /\ i >= j

\* .order_by(Feature.priority.asc(), Feature.id.asc())
Before(s, i, j) ==
  \/ s[i].priority < s[j].priority
  \/ s[i].priority = s[j].priority /\ i <= j

\* .first() of the ordered query: 0 for None.
FirstEligible(s) ==
  LET E == {i \in Ids(s) : Eligible(s[i])}
  IN IF E = {} THEN 0 ELSE CHOOSE i \in E : \A j \in E : Before(s, i, j)

\* The second query with the filters of the first.
PendingAndFree(row) == ~row.passes /\ ~row.in_progress /\ ~row.is_decomposed

\* The second query: .filter(passes == False).filter(is_decomposed == False)
Pending(row) == ~row.passes /\ ~row.is_decomposed

AnyPending(s) == \E i \in Ids(s) : Pending(s[i])

\* feature_get_next, first query: the feature, or on to the second query.
FeatureGetNext(w) ==
  /\ pc[w] = "idle"
  /\ UNCHANGED <<store, attempts>>
  /\ IF FirstEligible(store) # 0
     THEN Return(w, Ev("get_next", w, "feature", FirstEligible(store), 0))
     ELSE Goto(w, "gn_pending", NoLoc)

\* feature_get_next, second query: "being worked on" or "all passing".
FeatureGetNextPending(w) ==
  /\ pc[w] = "gn_pending"
  /\ UNCHANGED <<store, attempts>>
  /\ Return(w, Ev("get_next", w,
                  IF AnyPending(store) THEN "all_locked" ELSE "empty", 0, 0))

\* --------------------------------------------- feature_mark_in_progress
FeatureMarkInProgressRead(w, id) ==
  /\ pc[w] = "idle"
  /\ UNCHANGED <<store, attempts>>
  /\ IF id \notin Ids(store)
     THEN Return(w, Ev("mark_in_progress", w, "not_found", 0, 0))
     ELSE IF store[id].passes
     THEN Return(w, Ev("mark_in_progress", w, "already_passing", 0, 0))
     ELSE IF store[id].in_progress
     THEN Return(w, Ev("mark_in_progress", w, "already_in_progress", 0, 0))
     ELSE Goto(w, "mip_commit", RowLoc(id, store[id], 0))

FeatureMarkInProgressCommit(w) ==
  /\ pc[w] = "mip_commit"
  /\ UNCHANGED attempts
  /\ store' = UpdateRow(store, loc[w].fid, loc[w].row,
                        [loc[w].row EXCEPT !.in_progress = TRUE])
  /\ Return(w, Ev("mark_in_progress", w, "ok", loc[w].fid, 0))

\* -------------------------------------------- feature_clear_in_progress
FeatureClearInProgressRead(w, id) ==
  /\ pc[w] = "idle"
  /\ UNCHANGED <<store, attempts>>
  /\ IF id \notin Ids(store)
     THEN Return(w, Ev("clear_in_progress", w, "not_found", 0, 0))
     ELSE Goto(w, "cip_commit", RowLoc(id, store[id], 0))

FeatureClearInProgressCommit(w) ==
  /\ pc[w] = "cip_commit"
  /\ UNCHANGED attempts
  /\ store' = UpdateRow(store, loc[w].fid, loc[w].row,
                        [loc[w].row EXCEPT !.in_progress = FALSE])
  /\ Return(w, Ev("clear_in_progress", w, "ok", loc[w].fid, 0))

\* ------------------------------------------------- feature_mark_passing
\* The sub-features of a parent: .filter(Feature.parent_id == parent.id)
SubFeatures(s, pid) == {i \in Ids(s) : s[i].parent_id = pid}

\* any(...) in the place of all(...).
AnyPassing(s, pid) == \E i \in SubFeatures(s, pid) : s[i].passes

\* all(sf.passes for sf in sub_features)
AllPassing(s, pid) == \A i \in SubFeatures(s, pid) : s[i].passes

FeatureMarkPassingRead(w, id) ==
  /\ pc[w] = "idle"
  /\ UNCHANGED <<store, attempts>>
  /\ IF id \notin Ids(store)
     THEN Return(w, Ev("mark_passing", w, "not_found", 0, 0))
     ELSE Goto(w, "mp_commit", RowLoc(id, store[id], 0))

\* The first commit and session.refresh(feature); a sub-feature goes on to
\* its parent, whose id is kept in prio.
FeatureMarkPassingCommit(w) ==
  /\ pc[w] = "mp_commit"
  /\ UNCHANGED attempts
  /\ store' = UpdateRow(store, loc[w].fid, loc[w].row,
                 [loc[w].row EXCEPT !.passes = TRUE, !.in_progress = FALSE])
  /\ IF store'[loc[w].fid].parent_id # 0
     THEN Goto(w, "mp_parent",
               RowLoc(loc[w].fid, NoRow, store'[loc[w].fid].parent_id))
     ELSE Return(w, Ev("mark_passing", w, "ok", loc[w].fid, 0))

\* "if parent and parent.is_decomposed": load the sub-features and decide.
FeatureMarkPassingParent(w) ==
  /\ pc[w] = "mp_parent"
  /\ UNCHANGED <<store, attempts>>
  /\ LET pid == loc[w].prio
     IN IF /\ pid \in Ids(store)
           /\ store[pid].is_decomposed
           /\ AllPassing(store, pid)
           /\ ~store[pid].passes
        THEN Goto(w, "mp_parent_commit", RowLoc(loc[w].fid, store[pid], pid))
        ELSE Return(w, Ev("mark_passing", w, "ok", loc[w].fid, 0))

\* parent.passes = True; parent.in_progress = False; session.commit()
FeatureMarkPassingParentCommit(w) ==
  /\ pc[w] = "mp_parent_commit"
  /\ UNCHANGED attempts
  /\ store' = UpdateRow(store, loc[w].prio, loc[w].row,
                 [loc[w].row EXCEPT !.passes = TRUE, !.in_progress = FALSE])
  /\ Return(w, Ev("mark_passing", w, "parent_completed", loc[w].fid, 0))

\* --------------------------------------------------------- feature_skip
FeatureSkipRead(w, id) ==
  /\ pc[w] = "idle"
  /\ UNCHANGED <<store, attempts>>
  /\ IF id \notin Ids(store)
     THEN Return(w, Ev("skip", w, "not_found", 0, 0))
     ELSE IF store[id].passes
     THEN Return(w, Ev("skip", w, "already_passing", id, 0))
     ELSE Goto(w, "skip_commit", RowLoc(id, store[id], NextPriority(store)))

FeatureSkipCommit(w) ==
  /\ pc[w] = "skip_commit"
  /\ UNCHANGED attempts
  /\ store' = UpdateRow(store, loc[w].fid, loc[w].row,
                 [loc[w].row EXCEPT !.priority = loc[w].prio,
                                    !.in_progress = FALSE])
  /\ Return(w, Ev("skip", w, "ok", loc[w].fid, 0))

\* -------------------------------------------------- feature_create_bulk
\* The features list: n dicts, the one at index bad (0: none) without one
\* of the required keys.
BulkInputs ==
  {in \in [n : 1..MaxBulk, bad : 0..MaxBulk] : in.bad <= in.n}

\* A session that is committed when it is closed.
ClosedWithCommit(committed, added) == added

\* "finally: session.close()" on a session that was not committed: the rows
\* added to it are dropped, the table is as committed.
Closed(committed, added) == committed

\* The loop adds the rows before the one that fails the check to the session
\* and returns: nothing was flushed, and session.close() drops them.
FeatureCreateBulkRead(w, in) ==
  /\ pc[w] = "idle"
  /\ UNCHANGED attempts
  /\ store' = IF in.bad # 0
              THEN Closed(store,
                          Insert(store,
                                 [k \in 1..(in.bad - 1) |->
                                    NewFeature(NextPriority(store) + k - 1,
                                               DecompositionColumns.parent_id)]))
              ELSE store
  /\ IF in.bad # 0
     THEN Return(w, Ev("create_bulk", w, "missing_fields", 0, in.bad - 1))
     ELSE Goto(w, "bulk_commit",
               Loc(0, NoRow, << >>, in.n, NextPriority(store)))

\* priority = start_priority + i for the i-th item, then session.commit().
FeatureCreateBulkCommit(w) ==
  /\ pc[w] = "bulk_commit"
  /\ UNCHANGED attempts
  /\ store' = Insert(store,
                [k \in 1..loc[w].n |->
                   NewFeature(loc[w].prio + k - 1,
                              DecompositionColumns.parent_id)])
  /\ Return(w, Ev("create_bulk", w, "ok", 0, loc[w].n))

\* ---------------------------------------------------- feature_decompose
\* The sub_features list: n dicts, all valid or one of them refused by the
\* validation loop (a required key missing, or steps not a non-empty list).
ManyChildren == [n : 1..MaxManyChildren, valid : {TRUE}]
DecomposeInputs == [n : 1..MaxChildren, valid : BOOLEAN]

\* features_to_shift: .filter(priority > parent_priority).filter(id != feature_id)
FeaturesToShift(s, id) ==
  LET S == {i \in Ids(s) : s[i].priority > s[id].priority /\ i # id}
  IN [i \in S |-> s[i].priority]

\* The shift by one place whatever the number of sub-features.
ShiftedByOne(s, shift, n) ==
  [i \in Ids(s) |->
     IF i \in DOMAIN shift THEN [s[i] EXCEPT !.priority = shift[i] + 1]
     ELSE s[i]]

\* "f.priority += shift_amount" on the loaded rows, as the flush writes it.
Shifted(s, shift, n) ==
  [i \in Ids(s) |->
     IF i \in DOMAIN shift THEN [s[i] EXCEPT !.priority = shift[i] + n]
     ELSE s[i]]

\* The first k sub-features: priority = parent_priority + 1 + i.
Children(parentPriority, pid, k) ==
  [j \in 1..k |-> NewFeature(parentPriority + j, pid)]

\* The open transaction after the first k sub-features were flushed.
Flushed(s, l, k) ==
  Insert(Shifted(s, l.shift, l.n), Children(l.row.priority, l.fid, k))

\* A commit of the priority shift alone.
ShiftCommitted(s, l) == Shifted(s, l.shift, l.n)

\* parent.is_decomposed = True; parent.in_progress = False; session.commit()
DecomposeCommitted(s, l) ==
  UpdateRow(Flushed(s, l, l.n), l.fid, l.row,
            [l.row EXCEPT !.is_decomposed = TRUE, !.in_progress = FALSE])

\* A handler that commits what was flushed.
CommitFlushed(committed, flushed) == flushed

\* "except Exception: session.rollback()": the table as last committed.
Rollback(committed, flushed) == committed

FeatureDecomposeRead(w, id, in) ==
  /\ pc[w] = "idle"
  /\ UNCHANGED <<store, attempts>>
  /\ IF id \notin Ids(store)
     THEN Return(w, Ev("decompose", w, "not_found", 0, 0))
     ELSE IF store[id].passes
     THEN Return(w, Ev("decompose", w, "already_passing", 0, 0))
     ELSE IF store[id].is_decomposed
     THEN Return(w, Ev("decompose", w, "already_decomposed", 0, 0))
     ELSE IF in.n < 2
     THEN Return(w, Ev("decompose", w, "too_few", 0, 0))
     ELSE IF ~in.valid
     THEN Return(w, Ev("decompose", w, "invalid_child", 0, 0))
     ELSE Goto(w, "dc_commit",
               Loc(id, store[id], FeaturesToShift(store, id), in.n, 0))

\* The flushes of the loop, the parent's flags and session.commit().
FeatureDecomposeCommit(w) ==
  /\ pc[w] = "dc_commit"
  /\ store' = DecomposeCommitted(store, loc[w])
  /\ attempts' = WithoutAttempts(attempts, loc[w].fid)
  /\ Return(w, Ev("decompose", w, "ok", loc[w].fid, loc[w].n))

\* A flush or the commit raises (the database is locked by another writer,
\* an INSERT is refused) after the shift and k - 1 sub-features were flushed:
\* "except Exception: session.rollback()".
FeatureDecomposeFail(w) ==
  /\ pc[w] = "dc_commit"
  /\ UNCHANGED attempts
  /\ \E k \in 1..(loc[w].n + 1) :
        store' = Rollback(store, Flushed(store, loc[w], k - 1))
  /\ Return(w, Ev("decompose", w, "db_error", loc[w].fid, loc[w].n))

\* ------------------------------------------- the server's REST handlers
\* The handlers of src/server/routers/features.py run one at a time on the
\* server's event loop; like a tool, each loads its row, changes it and
\* commits, and a worker's commit may fall between the two.

\* PATCH /{feature_id}/requeue
RequeueFeatureRead(id) ==
  /\ pc[Server] = "idle"
  /\ UNCHANGED <<store, attempts>>
  /\ IF id \notin Ids(store)
     THEN Return(Server, Ev("requeue_feature", Server, "not_found", 0, 0))
     ELSE Goto(Server, "requeue_commit", RowLoc(id, store[id], 0))

\* feature.passes = False; feature.in_progress = False; session.commit()
RequeueFeatureCommit ==
  /\ pc[Server] = "requeue_commit"
  /\ UNCHANGED attempts
  /\ store' = UpdateRow(store, loc[Server].fid, loc[Server].row,
                 [loc[Server].row EXCEPT !.passes = FALSE,
                                         !.in_progress = FALSE])
  /\ Return(Server, Ev("requeue_feature", Server, "ok", loc[Server].fid, 0))

\* DELETE /{feature_id}: 404 when the row is not found.
DeleteFeatureRead(id) ==
  /\ pc[Server] = "idle"
  /\ UNCHANGED <<store, attempts>>
  /\ IF id \notin Ids(store)
     THEN Return(Server, Ev("delete_feature", Server, "not_found", 0, 0))
     ELSE Goto(Server, "delete_commit", RowLoc(id, store[id], 0))

\* session.delete(feature); session.commit()
DeleteFeatureCommit ==
  /\ pc[Server] = "delete_commit"
  /\ UNCHANGED attempts
  /\ store' = [i \in Ids(store) \ {loc[Server].fid} |-> store[i]]
  /\ Return(Server, Ev("delete_feature", Server, "ok", loc[Server].fid, 0))

\* PATCH /{feature_id}/skip: no check of passes.
SkipFeatureRead(id) ==
  /\ pc[Server] = "idle"
  /\ UNCHANGED <<store, attempts>>
  /\ IF id \notin Ids(store)
     THEN Return(Server, Ev("skip_feature", Server, "not_found", 0, 0))
     ELSE Goto(Server, "api_skip_commit",
               RowLoc(id, store[id], (NextPriority(store) - 1) + SKIP_OFFSET))

\* feature.priority = max + 1000; feature.in_progress = False; commit.
SkipFeatureCommit ==
  /\ pc[Server] = "api_skip_commit"
  /\ UNCHANGED attempts
  /\ store' = UpdateRow(store, loc[Server].fid, loc[Server].row,
                 [loc[Server].row EXCEPT !.priority = loc[Server].prio,
                                         !.in_progress = FALSE])
  /\ Return(Server, Ev("skip_feature", Server, "ok", loc[Server].fid, 0))

\* POST /bulk: the priority field of each item of request.features, 0 for
\* None (not given) or an explicit priority.
BulkRequests ==
  UNION {[1..n -> 0..MaxBulk] : n \in 1..MaxBulk}

\* Every item at next_priority, which never moves.
BulkPrioritiesAllAtNext(next, requested) ==
  [k \in DOMAIN requested |->
     IF requested[k] # 0 THEN requested[k] ELSE next]

\* "priority = feat.priority if feat.priority is not None else next_priority;
\*  next_priority = max(next_priority, priority) + 1", item after item.
BulkPriorities(next, requested) ==
  LET RECURSIVE From(_, _)
      From(k, nxt) ==
        IF k > Len(requested) THEN << >>
        ELSE LET priority == IF requested[k] # 0 THEN requested[k] ELSE nxt
             IN <<priority>>
                \o From(k + 1, (IF nxt >= priority THEN nxt ELSE priority) + 1)
  IN From(1, next)

BulkCreateFeaturesRead(in) ==
  /\ pc[Server] = "idle"
  /\ UNCHANGED <<store, attempts>>
  /\ Goto(Server, "api_bulk_commit",
          Loc(0, NoRow, in, Len(in), NextPriority(store)))

\* The flushes of the loop and session.commit().
BulkCreateFeaturesCommit ==
  /\ pc[Server] = "api_bulk_commit"
  /\ UNCHANGED attempts
  /\ store' = Insert(store,
                [k \in 1..loc[Server].n |->
                   NewFeature(BulkPriorities(loc[Server].prio,
                                             loc[Server].shift)[k],
                              DecompositionColumns.parent_id)])
  /\ Return(Server,
            Ev("bulk_create_features", Server, "ok", 0, loc[Server].n))

\* ------------------------------------------------------- the agent loop
\* run_autonomous_agent (src/agent.py) is the loop of one agent process: it
\* checks for completion, starts a session of the model, whose tool calls are
\* the tools above, and after the session counts the attempt.

\* count_passing_tests: SELECT COUNT(*) FROM features WHERE passes = 1
PassingCount(s) == Cardinality({i \in Ids(s) : s[i].passes})

\* get_current_feature_id: "SELECT id FROM features WHERE in_progress = 1
\* LIMIT 1" has no ORDER BY: any row in progress, 0 for None.
CurrentFeatureIds(s) ==
  IF \E i \in Ids(s) : s[i].in_progress
  THEN {i \in Ids(s) : s[i].in_progress} ELSE {0}

\* check_completion_status that stops at a stuck feature, as with
\* allow_decomposition=False.
CompletionWithoutDecomposition(s, a) ==
  IF Ids(s) # {} /\ PassingCount(s) = Cardinality(Ids(s)) THEN "complete"
  ELSE IF FirstStuck(a) # 0 THEN "stuck"
  ELSE "none"

\* check_completion_status(project_dir), allow_decomposition at its default
\* True as the loop calls it: its action, with the feature to decompose when
\* there is one.  "complete" and "stuck" come with should_stop.
CompletionAction(s, a) ==
  IF Ids(s) # {} /\ PassingCount(s) = Cardinality(Ids(s)) THEN "complete"
  ELSE IF FirstStuck(a) # 0 THEN "decompose"
  ELSE "none"

\* The process starts: is_first_run = not has_features(project_dir).
RunAutonomousAgent(w) ==
  /\ agent[w].phase = "stopped"
  /\ agent' = [agent EXCEPT ![w] = AgentAt("top", Ids(store) = {}, FALSE, 0, 0)]
  /\ last' = Ev("run_autonomous_agent", w, "started", 0, 0)
  /\ UNCHANGED <<store, pc, loc, attempts, pending>>

\* "Check for completion BEFORE starting a new session (skip on first run)":
\* the loop ends, or goes on in decomposition mode or in coding mode.
AgentCheckCompletion(w) ==
  /\ agent[w].phase = "top"
  /\ UNCHANGED <<store, pc, loc, attempts>>
  /\ LET action == IF agent[w].first THEN "none"
                   ELSE CompletionAction(store, attempts)
     IN /\ agent' = [agent EXCEPT ![w] =
                       IF action \in {"complete", "stuck"} THEN NoAgent
                       ELSE [@ EXCEPT !.phase = "begin",
                                      !.mode = (action = "decompose")]]
        /\ pending' = IF action = "decompose" THEN FirstStuck(attempts)
                      ELSE pending
        /\ last' = Ev("check_completion_status", w, action,
                      IF action = "decompose" THEN FirstStuck(attempts) ELSE 0,
                      0)

\* NEXUS_MAX_COST_USD in the environment in which the agent processes are
\* started next.
SetUsageLimit(limit) ==
  /\ \A w \in Workers : agent[w].phase = "stopped"
  /\ usage' = [usage EXCEPT !.limit = limit]
  /\ last' = Ev("environment", Server, "ok", 0, limit)
  /\ UNCHANGED <<store, pc, loc, attempts, pending, agent>>

\* check_usage_limits: "if MAX_COST_USD <= 0: return False", then
\* "stats.total_cost_usd >= MAX_COST_USD".
LimitExceeded(u) == u.limit > 0 /\ u.total >= u.limit

\* check_usage_limits, where the loop breaks when a limit is exceeded; then
\* feature_id_before, passing_before, and on the first run
\* reset_stuck_detection, and the session runs.
AgentBeginSession(w) ==
  /\ agent[w].phase = "begin"
  /\ UNCHANGED <<store, pc, loc, pending>>
  /\ IF LimitExceeded(usage)
     THEN /\ agent' = [agent EXCEPT ![w] = NoAgent]
          /\ UNCHANGED attempts
          /\ last' = Ev("check_usage_limits", w, "exceeded", 0, usage.total)
     ELSE /\ \E before \in CurrentFeatureIds(store) :
               agent' = [agent EXCEPT ![w] =
                           AgentAt("session", FALSE, @.mode, before,
                                   PassingCount(store))]
          /\ attempts' = IF agent[w].first THEN << >> ELSE attempts
          /\ last' = NoEv

\* run_agent_session that tests the limits itself when it has recorded the
\* usage, and ends the process there.
AgentSessionReturnsAndChecks(w, status, cost) ==
  /\ agent[w].phase = "session"
  /\ pc[w] = "idle"
  /\ status = "error" => cost = 0
  /\ usage' = [usage EXCEPT !.total = @ + cost]
  /\ IF LimitExceeded(usage')
     THEN /\ agent' = [agent EXCEPT ![w] = NoAgent]
          /\ last' = Ev("check_usage_limits", w, "exceeded", 0, usage'.total)
     ELSE /\ agent' = [agent EXCEPT ![w].phase =
                         IF status = "continue" THEN "returned" ELSE "failed"]
          /\ last' = Ev("record_session_usage", w, status, 0, cost)
  /\ UNCHANGED <<store, pc, loc, attempts, pending>>

\* run_agent_session ends: with a ResultMessage, record_session_usage adds
\* the cost of the session to the totals of the file and status is
\* "continue"; a session that raised records nothing and status is "error".
\* The loop stands before the lines that track the attempt.
AgentSessionReturns(w, status, cost) ==
  /\ agent[w].phase = "session"
  /\ pc[w] = "idle"
  /\ status = "error" => cost = 0
  /\ usage' = [usage EXCEPT !.total = @ + cost]
  /\ agent' = [agent EXCEPT ![w].phase =
                 IF status = "continue" THEN "returned" ELSE "failed"]
  /\ last' = Ev("record_session_usage", w, status, 0, cost)
  /\ UNCHANGED <<store, pc, loc, attempts, pending>>

\* run_agent_session has returned status ("continue", or "error" when the
\* session raised): the attempt tracking of lines 348-368 and, on
\* "continue", check_completion_status once more.  The event names the
\* feature an attempt was recorded for, 0 when none was.
AgentEndSession(w, status) ==
  /\ agent[w].phase = (IF status = "continue" THEN "returned" ELSE "failed")
  /\ pc[w] = "idle"
  /\ UNCHANGED <<store, pc, loc>>
  /\ \E after \in CurrentFeatureIds(store) :
       LET decomposed == agent[w].mode /\ pending # 0
           a1 == IF decomposed THEN WithoutAttempts(attempts, pending)
                 ELSE attempts
           p1 == IF agent[w].mode THEN 0 ELSE pending
           a2 == IF /\ agent[w].before # 0
                    /\ PassingCount(store) > agent[w].passing
                 THEN WithoutAttempts(a1, agent[w].before) ELSE a1
           recorded == after # 0 /\ after = agent[w].before
           a3 == IF recorded THEN WithAttempt(a2, after) ELSE a2
           action == IF status = "continue" THEN CompletionAction(store, a3)
                     ELSE "none"
       IN /\ attempts' = a3
          /\ pending' = IF action = "decompose" THEN FirstStuck(a3) ELSE p1
          /\ agent' = [agent EXCEPT ![w] =
                         IF action \in {"complete", "stuck"} THEN NoAgent
                         ELSE [@ EXCEPT !.phase = "top"]]
          /\ last' = Ev("run_agent_session", w, status,
                        IF recorded THEN after ELSE 0,
                        IF recorded THEN CountOf(a3, after) ELSE 0)

\* The agent process is stopped or dies, wherever its loop stands: no code of
\* the loop runs any more, and the tool call its session had under way is
\* not completed.
AgentKilled(w) ==
  /\ agent[w].phase # "stopped"
  /\ agent' = [agent EXCEPT ![w] = NoAgent]
  /\ pc' = [pc EXCEPT ![w] = "idle"]
  /\ loc' = [loc EXCEPT ![w] = NoLoc]
  /\ last' = Ev("kill", w, agent[w].phase, agent[w].before, 0)
  /\ UNCHANGED <<store, attempts, pending>>

\* ------------------------------------------------ the process supervisor
\* AgentProcessManager (server/services/process_manager.py) runs one agent
\* process: start, stop, pause, resume and healthcheck, with the statuses
\* stopped, running, paused and crashed.  Its worker process is alive when
\* the loop of run_autonomous_agent stands somewhere.
Alive(w) == agent[w].phase # "stopped"

\* start() fails if the worker is already running; running is entered from
\* stopped only.
StartSucceeds(sup) == sup.status = "stopped"

\* pause() suspends a running worker, resume() continues a paused one.
PauseSucceeds(sup) == sup.status = "running"
ResumeSucceeds(sup) == sup.status = "paused"

\* healthcheck() that looks at running workers only.
FoundDeadWhileRunning(sup, alive) == sup.status = "running" /\ ~alive

\* healthcheck(): the recorded pid is not alive and the status was running
\* or paused.
FoundDead(sup, alive) == sup.status \in {"running", "paused"} /\ ~alive

\* The features whose lock the worker holds, as its session takes a lock
\* with feature_mark_in_progress and gives it up with feature_mark_passing.
Holding(sup, ev) ==
  IF ev.op = "mark_in_progress" /\ ev.res = "ok"
  THEN [sup EXCEPT !.held = @ \cup {ev.id}]
  ELSE IF ev.op = "mark_passing" /\ ev.res = "ok"
  THEN [sup EXCEPT !.held = @ \ {ev.id}]
  ELSE sup

\* The table after the locks of the features in held are cleared.
Released(s, held) ==
  [i \in Ids(s) |->
     IF i \in held THEN [s[i] EXCEPT !.in_progress = FALSE] ELSE s[i]]

\* The worker processes of W are terminated: their loops and the tool calls
\* of their sessions end where they stand.
Terminate(W) ==
  /\ agent' = [w \in Workers |-> IF w \in W THEN NoAgent ELSE agent[w]]
  /\ pc' = [p \in Procs |-> IF p \in W THEN "idle" ELSE pc[p]]
  /\ loc' = [p \in Procs |-> IF p \in W THEN NoLoc ELSE loc[p]]

\* GET /api/projects/{project_name}/agent/status: "await
\* manager.healthcheck()" on the process manager of agent w.  The event
\* carries the status found and the number of locks released.
Healthcheck(w) ==
  /\ w \in DOMAIN agents
  /\ LET dead == FoundDead(agents[w], Alive(w))
     IN /\ agents' = IF dead THEN [agents EXCEPT ![w] = Supervisor("crashed", {})]
                     ELSE agents
        /\ store' = IF dead THEN Released(store, agents[w].held) ELSE store
        /\ last' = Ev("healthcheck", w,
                      IF dead THEN "crashed" ELSE agents[w].status, 0,
                      IF dead THEN Cardinality(agents[w].held) ELSE 0)
  /\ UNCHANGED <<pc, loc, attempts, loopVars>>
  /\ UNCHANGED <<registry, feature_locks, config, manager, project>>

\* ------------------------------------------------------ the orchestrator
\* MultiAgentManager (server/services/multi_agent_manager.py): every handler
\* runs under self._lock, one at a time.  Agent ids are those of the worker
\* sessions: get_next_agent_id numbers them in the order of Workers.
AgentNumber(w) == IF w = "w1" THEN 1 ELSE 2

\* manager.pid of the process that start() has started for the agent: a
\* process id, which is never None.
Pid(w) == AgentNumber(w)

\* get_next_agent_id: "agent-1" without rows, else the highest number + 1;
\* "none" when that id is beyond the ids of the model.
NextAgentId(reg) ==
  LET next == IF DOMAIN reg = {} THEN 1
              ELSE MaxOf({AgentNumber(w) : w \in DOMAIN reg}) + 1
  IN IF \E w \in Workers : AgentNumber(w) = next
     THEN CHOOSE w \in Workers : AgentNumber(w) = next
     ELSE "none"

\* PUT /config: create_or_update_project_config with the fields given.
UpdateConfig(max, auto) ==
  /\ config' = ProjectConfig(max, auto)
  /\ last' = Ev("update_config", Server, "ok", 0, max)
  /\ UNCHANGED <<store, pc, loc, attempts, loopVars>>
  /\ UNCHANGED <<agents, registry, feature_locks, manager, project>>

\* get_multi_manager on the first request for the project: the manager is
\* made, loads the configuration once and takes a process manager for every
\* agent of the registry.
GetMultiManager ==
  /\ ~manager.created
  /\ manager' = [created |-> TRUE, config |-> config, task |-> FALSE]
  /\ agents' = [w \in DOMAIN registry |-> NewSupervisor]
  /\ last' = Ev("get_multi_manager", Server, "ok", 0, 0)
  /\ UNCHANGED <<store, pc, loc, attempts, loopVars>>
  /\ UNCHANGED <<registry, feature_locks, config, project>>

\* "if current_count >= self.max_agents", on the configuration the manager
\* loaded when it was made.
LimitReached(count) == count >= manager.config.max_parallel_agents

\* spawn_agent: refused at the limit, else a registry row and a process
\* manager for the next agent id.  The event carries the number of agents
\* after the call.
SpawnAgent ==
  /\ manager.created
  /\ IF LimitReached(Cardinality(DOMAIN agents))
     THEN /\ last' = Ev("spawn_agent", "none", "refused", 0,
                        Cardinality(DOMAIN agents))
          /\ UNCHANGED <<agents, registry>>
     ELSE LET id == NextAgentId(registry)
          IN /\ id \in Workers
             /\ registry' = [w \in DOMAIN registry \cup {id} |->
                               IF w = id THEN NewProjectAgent
                               ELSE registry[w]]
             /\ agents' = [w \in DOMAIN agents \cup {id} |->
                             IF w = id THEN NewSupervisor ELSE agents[w]]
             /\ last' = Ev("spawn_agent", id, "ok", 0,
                           Cardinality(DOMAIN agents) + 1)
  /\ UNCHANGED <<store, pc, loc, attempts, loopVars>>
  /\ UNCHANGED <<feature_locks, config, manager, project>>

\* start_agent: manager.start(); on success the registry records "running"
\* and the completion check is started when it is configured and not there.
StartAgent(w) ==
  /\ manager.created /\ w \in DOMAIN agents
  /\ LET success == StartSucceeds(agents[w])
     IN /\ agents' = IF success THEN [agents EXCEPT ![w].status = "running"]
                     ELSE agents
        /\ agent' = IF success
                    THEN [agent EXCEPT ![w] =
                            AgentAt("top", Ids(store) = {}, FALSE, 0, 0)]
                    ELSE agent
        /\ registry' = IF success
                       THEN [registry EXCEPT ![w] =
                               UpdateProjectAgent(@, "running", Pid(w), 0)]
                       ELSE registry
        /\ manager' = IF success /\ manager.config.auto_stop_on_completion
                      THEN [manager EXCEPT !.task = TRUE] ELSE manager
        /\ last' = Ev("start_agent", w,
                      IF success THEN "running" ELSE "stopped", 0, 0)
  /\ UNCHANGED <<store, pc, loc, attempts, pending>>
  /\ UNCHANGED <<feature_locks, config, project>>

\* _release_features_for_agent
ReleaseFeaturesForAgent(locks, w) ==
  [f \in {g \in DOMAIN locks : locks[g] # w} |-> locks[f]]

\* stop_agent: manager.stop(), which terminates the worker and clears the
\* locks it held, then _release_features_for_agent and the registry.
StopAgent(w) ==
  /\ manager.created /\ w \in DOMAIN agents
  /\ Terminate({w})
  /\ store' = Released(store, agents[w].held)
  /\ agents' = [agents EXCEPT ![w] = NewSupervisor]
  /\ feature_locks' = ReleaseFeaturesForAgent(feature_locks, w)
  /\ registry' = [registry EXCEPT ![w] =
                     UpdateProjectAgent(@, "stopped", 0, 0)]
  /\ last' = Ev("stop_agent", w, "ok", 0, 0)
  /\ UNCHANGED <<attempts, pending, config, manager, project>>

\* pause_agent: manager.pause(), then the registry records "paused" whatever
\* pause() answered.
PauseAgent(w) ==
  /\ manager.created /\ w \in DOMAIN agents
  /\ agents' = IF PauseSucceeds(agents[w])
               THEN [agents EXCEPT ![w].status = "paused"] ELSE agents
  /\ registry' = [registry EXCEPT ![w] =
                     UpdateProjectAgent(@, "paused", 0, 0)]
  /\ last' = Ev("pause_agent", w,
                IF PauseSucceeds(agents[w]) THEN "ok" ELSE "failed", 0, 0)
  /\ UNCHANGED <<store, pc, loc, attempts, loopVars>>
  /\ UNCHANGED <<feature_locks, config, manager, project>>

\* resume_agent: manager.resume(), then the registry records "running"
\* whatever resume() answered.
ResumeAgent(w) ==
  /\ manager.created /\ w \in DOMAIN agents
  /\ agents' = IF ResumeSucceeds(agents[w])
               THEN [agents EXCEPT ![w].status = "running"] ELSE agents
  /\ registry' = [registry EXCEPT ![w] =
                     UpdateProjectAgent(@, "running", 0, 0)]
  /\ last' = Ev("resume_agent", w,
                IF ResumeSucceeds(agents[w]) THEN "ok" ELSE "failed", 0, 0)
  /\ UNCHANGED <<store, pc, loc, attempts, loopVars>>
  /\ UNCHANGED <<feature_locks, config, manager, project>>

\* remove_agent: a running or paused agent is stopped, its locks of the
\* table are released, and it leaves the manager and the registry.
RemoveAgent(w) ==
  /\ manager.created /\ w \in DOMAIN agents
  /\ LET active == agents[w].status \in {"running", "paused"}
     IN /\ Terminate(IF active THEN {w} ELSE {})
        /\ store' = IF active THEN Released(store, agents[w].held) ELSE store
  /\ feature_locks' = ReleaseFeaturesForAgent(feature_locks, w)
  /\ agents' = [v \in DOMAIN agents \ {w} |-> agents[v]]
  /\ registry' = [v \in DOMAIN registry \ {w} |-> registry[v]]
  /\ last' = Ev("remove_agent", w, "ok", 0, 0)
  /\ UNCHANGED <<attempts, pending, config, manager, project>>

\* The body of stop_all: every running or paused agent is stopped and
\* recorded as stopped, and the completion check is cancelled.
StopAllAgents ==
  LET active == {w \in DOMAIN agents :
                   agents[w].status \in {"running", "paused"}}
  IN /\ Terminate(active)
     /\ store' = Released(store, UNION {agents[w].held : w \in active})
     /\ agents' = [w \in DOMAIN agents |->
                     IF w \in active THEN NewSupervisor ELSE agents[w]]
     /\ registry' = [w \in DOMAIN registry |->
                       IF w \in active
                       THEN UpdateProjectAgent(registry[w], "stopped", 0, 0)
                       ELSE registry[w]]
     /\ manager' = [manager EXCEPT !.task = FALSE]
     /\ UNCHANGED feature_locks

\* POST /agents/stop-all
StopAll ==
  /\ manager.created
  /\ StopAllAgents
  /\ last' = Ev("stop_all", Server, "ok", 0, 0)
  /\ UNCHANGED <<attempts, pending, config, project>>

\* POST /projects/{name}/restart: the manager of the project is made when
\* there is none, stop_all, features.db is unlinked and the project is
\* active again.  The event carries the number of rows the file held.
RestartProject ==
  LET sups == IF manager.created THEN agents
              ELSE [w \in DOMAIN registry |-> NewSupervisor]
      active == {w \in DOMAIN sups : sups[w].status \in {"running", "paused"}}
  IN /\ Terminate(active)
     /\ agents' = [w \in DOMAIN sups |->
                     IF w \in active THEN NewSupervisor ELSE sups[w]]
     /\ registry' = [w \in DOMAIN registry |->
                       IF w \in active
                       THEN UpdateProjectAgent(registry[w], "stopped", 0, 0)
                       ELSE registry[w]]
     /\ manager' = [created |-> TRUE,
                    config |-> IF manager.created THEN manager.config
                               ELSE config,
                    task |-> FALSE]
     /\ store' = << >>
     /\ project' = "active"
     /\ last' = Ev("restart_project", Server, "ok", 0, Cardinality(Ids(store)))
     /\ UNCHANGED <<attempts, pending, feature_locks, config>>

\* lock_feature without the test of the holder.
LockFeatureFromAnyone(id, w) ==
  /\ manager.created
  /\ feature_locks' = [f \in DOMAIN feature_locks \cup {id} |->
                         IF f = id THEN w ELSE feature_locks[f]]
  /\ last' = Ev("lock_feature", w, "ok", id, 0)
  /\ UNCHANGED <<store, pc, loc, attempts, loopVars>>
  /\ UNCHANGED <<agents, registry, config, manager, project>>

\* lock_feature: refused when another agent holds the lock.
LockFeature(id, w) ==
  /\ manager.created
  /\ LET taken == id \in DOMAIN feature_locks /\ feature_locks[id] # w
     IN /\ feature_locks' =
             IF taken THEN feature_locks
             ELSE [f \in DOMAIN feature_locks \cup {id} |->
                     IF f = id THEN w ELSE feature_locks[f]]
        /\ last' = Ev("lock_feature", w, IF taken THEN "locked" ELSE "ok",
                      id, 0)
  /\ UNCHANGED <<store, pc, loc, attempts, loopVars>>
  /\ UNCHANGED <<agents, registry, config, manager, project>>

\* unlock_feature: the entry is deleted when agent_id holds it; False for a
\* feature that is not locked or that another agent holds.
UnlockFeature(id, w) ==
  /\ manager.created
  /\ LET held == id \in DOMAIN feature_locks /\ feature_locks[id] = w
     IN /\ feature_locks' =
             IF held THEN [f \in DOMAIN feature_locks \ {id} |->
                             feature_locks[f]]
             ELSE feature_locks
        /\ last' = Ev("unlock_feature", w, IF held THEN "ok" ELSE "not_held",
                      id, 0)
  /\ UNCHANGED <<store, pc, loc, attempts, loopVars>>
  /\ UNCHANGED <<agents, registry, config, manager, project>>

\* The server process ends with the agent processes it runs (a crash of the
\* host) and is started again: the managers it held in memory are gone,
\* features.db and the registry are as they were.
ServerRestart ==
  /\ manager.created
  /\ Terminate(Workers)
  /\ manager' = [created |-> FALSE, config |-> DefaultConfig, task |-> FALSE]
  /\ agents' = [w \in {} |-> NewSupervisor]
  /\ feature_locks' = [f \in {} |-> "none"]
  /\ last' = Ev("lifespan", Server, "started", 0, 0)
  /\ UNCHANGED <<store, attempts, pending, registry, config, project>>

\* The test with "total > 1" in the place of "total > 0".
CompleteBeyondOne(total, passing) == total > 1 /\ passing = total

\* "if total > 0: ... if passing == total:"
AllFeaturesPass(total, passing) == total > 0 /\ passing = total

\* One round of _check_completion_loop after its sleep: nothing when no
\* agent has the status running; with total > 0 and passing == total,
\* stop_all and the project is finished, which ends the loop.
CheckCompletionLoop ==
  /\ manager.created /\ manager.task
  /\ LET running == {w \in DOMAIN agents : agents[w].status = "running"}
         total == Cardinality(Ids(store))
         passing == PassingCount(store)
     IN IF running # {} /\ AllFeaturesPass(total, passing)
        THEN /\ StopAllAgents
             /\ project' = "finished"
             /\ last' = Ev("check_completion", Server, "finished", 0, passing)
        ELSE /\ last' = Ev("check_completion", Server,
                           IF running = {} THEN "no_agents" ELSE "incomplete",
                           0, passing)
             /\ UNCHANGED <<store, pc, loc, agent, project>>
             /\ UNCHANGED <<agents, registry, feature_locks, manager>>
  /\ UNCHANGED <<attempts, pending, config>>

\* ------------------------------------------------- the registry database
\* registry.py keeps the projects, their agents and their configurations in
\* one SQLite file that every server handler shares.  A call finds the
\* database locked ("database is locked") for its first busy attempts, busy
\* a choice of the other writers, and would succeed at the next one.
RECURSIVE PowerOfTwo(_)
PowerOfTwo(n) == IF n = 0 THEN 1 ELSE 2 * PowerOfTwo(n - 1)

\* What a call has done: its answer ("ok", or "busy" for the error raised),
\* its attempts and the time it slept between them, in tenths of a second.
Outcome(res, tries, slept) == [res |-> res, tries |-> tries, slept |-> slept]

\* _with_retry(func): "for attempt in range(SQLITE_MAX_RETRIES)", a sleep of
\* (2 ** attempt) * 0.1 after a busy attempt that is not the last, and the
\* error raised at the last.  No function of the repository calls it.
WithRetry(busy) ==
  LET RECURSIVE From(_, _)
      From(attempt, slept) ==
        IF attempt >= busy THEN Outcome("ok", attempt + 1, slept)
        ELSE IF attempt < SQLITE_MAX_RETRIES - 1
             THEN From(attempt + 1, slept + PowerOfTwo(attempt))
             ELSE Outcome("busy", attempt + 1, slept)
  IN From(0, 0)

\* "with _get_session() as session: ...", as the functions of the registry
\* run their statements: once, "except Exception: session.rollback(); raise".
GetSession(busy) ==
  IF busy = 0 THEN Outcome("ok", 1, 0) ELSE Outcome("busy", 1, 0)

\* The event of a registry call: in id the attempts that find the database
\* locked, in n the attempts made.
RegistryEv(op, busy, out) == Ev(op, Server, out.res, busy, out.tries)

\* update_project_status(name, status)
UpdateProjectStatus(status, busy) ==
  LET out == GetSession(busy)
  IN /\ project' = IF out.res = "ok" THEN status ELSE project
     /\ last' = RegistryEv("update_project_status", busy, out)
     /\ UNCHANGED <<agents, registry, feature_locks, config, manager>>

\* create_or_update_project_config(project_name, max_parallel_agents, ...,
\* auto_stop_on_completion)
CreateOrUpdateProjectConfig(max, auto, busy) ==
  LET out == GetSession(busy)
  IN /\ config' = IF out.res = "ok" THEN ProjectConfig(max, auto) ELSE config
     /\ last' = RegistryEv("create_or_update_project_config", busy, out)
     /\ UNCHANGED <<agents, registry, feature_locks, manager, project>>

\* create_project_agent(project_name, agent_id): a row with status "stopped".
CreateProjectAgent(w, busy) ==
  LET out == GetSession(busy)
  IN /\ w \notin DOMAIN registry
     /\ registry' = IF out.res = "ok"
                    THEN [a \in DOMAIN registry \cup {w} |->
                            IF a = w THEN NewProjectAgent ELSE registry[a]]
                    ELSE registry
     /\ last' = RegistryEv("create_project_agent", busy, out)
     /\ UNCHANGED <<agents, feature_locks, config, manager, project>>

\* delete_project_agent(project_name, agent_id)
DeleteProjectAgent(w, busy) ==
  LET out == GetSession(busy)
  IN /\ w \in DOMAIN registry
     /\ registry' = IF out.res = "ok"
                    THEN [a \in DOMAIN registry \ {w} |-> registry[a]]
                    ELSE registry
     /\ last' = RegistryEv("delete_project_agent", busy, out)
     /\ UNCHANGED <<agents, feature_locks, config, manager, project>>

\* ------------------------------------------------ the worktree coordinator
\* WorktreeManager (server/services/worktree_manager.py) runs git in the
\* project directory.  A file is the unit of a merge: a file that both
\* branches changed since their common commit, to different contents, is a
\* conflict.
Conflicts(g) ==
  {f \in Files : /\ g.target[f] # g.base[f]
                 /\ g.branch[f] # g.base[f]
                 /\ g.target[f] # g.branch[f]}

\* The files of a merge of the agent's branch into the target.
Merged(g) ==
  [f \in Files |-> IF f \in Conflicts(g) THEN -1
                   ELSE IF g.branch[f] # g.base[f] THEN g.branch[f]
                   ELSE g.target[f]]

\* "git merge --abort" that restores nothing.
NotAborted(g) == g

\* "git merge --abort": the project directory is back at the tip of the
\* branch that is checked out, and no merge is under way.
Aborted(g) == [g EXCEPT !.tree = g.target, !.merging = FALSE]

\* create_worktree: "git worktree add -b agent/{agent_id} path", a branch and
\* a working copy at the commit that is checked out.
CreateWorktree(w) ==
  /\ ~git.exists
  /\ git' = [git EXCEPT !.exists = TRUE, !.branch = git.target,
                        !.base = git.target, !.copy = git.target]
  /\ last' = Ev("create_worktree", w, "ok", 0, 0)

\* A commit on the target branch, made in the project directory.
CommitOnTarget(f, v) ==
  /\ git.target[f] # v
  /\ git' = [git EXCEPT !.target[f] = v, !.tree[f] = v]
  /\ last' = Ev("commit", Server, "target", 0, v)

\* A commit of the agent on its branch, made in its worktree.
CommitInWorktree(w, f, v) ==
  /\ git.exists
  /\ git.branch[f] # v
  /\ git' = [git EXCEPT !.branch[f] = v, !.copy[f] = v]
  /\ last' = Ev("commit", w, "branch", 0, v)

\* merge_worktree: checkout of the target, "git merge agent/{agent_id}
\* --no-ff"; when the merge fails, "git merge --abort" and the answer
\* (False, "Merge conflict: ...").  The event carries the number of files in
\* conflict.
MergeWorktree(w) ==
  /\ git.exists
  /\ IF Conflicts(git) = {}
     THEN /\ git' = [git EXCEPT !.target = Merged(git), !.tree = Merged(git),
                                !.base = git.branch]
          /\ last' = Ev("merge_worktree", w, "ok", 0, 0)
     ELSE /\ git' = Aborted([git EXCEPT !.tree = Merged(git),
                                        !.merging = TRUE])
          /\ last' = Ev("merge_worktree", w, "conflict", 0,
                        Cardinality(Conflicts(git)))

\* ----------------------------------------------------------------- next
\* The ids a caller passes: those of the table and one that is not there.
IdInputs == Ids(store) \cup {NextId(store)}

History ==
  everPassed' = everPassed \cup {i \in Ids(store') : store'[i].passes}

\* Rows that calls under way will still insert.
InFlightRows ==
  LET RECURSIVE Sum(_)
      Sum(S) == IF S = {} THEN 0
                ELSE LET w == CHOOSE x \in S : TRUE
                     IN (IF pc[w] \in {"bulk_commit", "dc_commit",
                                       "api_bulk_commit"}
                         THEN loc[w].n ELSE 0) + Sum(S \ {w})
  IN Sum(Procs)

\* A priority that "max + 1" or "max + SKIP_OFFSET" may produce within the
\* bounds: up to MaxPriority, before or after one jump by SKIP_OFFSET.
InWindow(p) ==
  \/ p <= MaxPriority
  \/ p > SKIP_OFFSET /\ p <= SKIP_OFFSET + MaxPriority

\* The bounds of the model: the rows of the table (with those under way) and
\* the priorities that skip and bulk create compute.
Bounded(maxRows) ==
  /\ Cardinality(Ids(store)) + InFlightRows <= maxRows
  /\ \A w \in Procs :
       /\ pc[w] \in {"skip_commit", "api_skip_commit"} => InWindow(loc[w].prio)
       /\ pc[w] = "bulk_commit" => InWindow(loc[w].prio + loc[w].n - 1)
       /\ pc[w] = "api_bulk_commit" =>
            \A k \in 1..loc[w].n :
              InWindow(BulkPriorities(loc[w].prio, loc[w].shift)[k])

\* Two worker sessions whose calls interleave step by step: they create
\* features, take work and decompose.
Concurrent(A) ==
  /\ A
  /\ UNCHANGED <<everPassed, loopVars, managerVars, sideVars>>
  /\ Bounded(MaxFeatures)'

Next ==
  \E w \in Workers :
    \/ Concurrent(FeatureGetNext(w))
    \/ Concurrent(FeatureGetNextPending(w))
    \/ \E id \in IdInputs : Concurrent(FeatureMarkInProgressRead(w, id))
    \/ Concurrent(FeatureMarkInProgressCommit(w))
    \/ \E in \in BulkInputs : Concurrent(FeatureCreateBulkRead(w, in))
    \/ Concurrent(FeatureCreateBulkCommit(w))
    \/ \E id \in IdInputs : \E in \in DecomposeInputs :
          Concurrent(FeatureDecomposeRead(w, id, in))
    \/ Concurrent(FeatureDecomposeCommit(w))
    \/ Concurrent(FeatureDecomposeFail(w))

Spec == Init /\ [][Next]_vars

\* Two worker sessions: one dequeues while the other creates and decomposes.
DuringShift(A) ==
  /\ A
  /\ UNCHANGED <<everPassed, loopVars, managerVars, sideVars>>
  /\ Bounded(ShiftMaxFeatures)'

ShiftNext ==
  \E w \in Workers :
    \/ DuringShift(FeatureGetNext(w))
    \/ DuringShift(FeatureGetNextPending(w))
    \/ \E in \in BulkInputs : DuringShift(FeatureCreateBulkRead(w, in))
    \/ DuringShift(FeatureCreateBulkCommit(w))
    \/ \E id \in IdInputs : \E in \in DecomposeInputs :
          DuringShift(FeatureDecomposeRead(w, id, in))
    \/ DuringShift(FeatureDecomposeCommit(w))
    \/ DuringShift(FeatureDecomposeFail(w))

SpecShift == Init /\ [][ShiftNext]_vars

\* The session whose calls SpecSeq, SpecFamily, SpecServer and SpecSkip run.
SeqWorker == CHOOSE w \in Workers : TRUE

Idle(W) == \A w \in W : pc[w] = "idle"

\* One session, one call at a time: it creates, skips, takes and decomposes.
Alone(A) ==
  /\ Idle(Procs \ {SeqWorker})
  /\ A
  /\ UNCHANGED <<everPassed, loopVars, managerVars, sideVars>>
  /\ Bounded(SeqMaxFeatures)'

SeqNext ==
  \E w \in {SeqWorker} :
    \/ \E in \in BulkInputs : Alone(FeatureCreateBulkRead(w, in))
    \/ Alone(FeatureCreateBulkCommit(w))
    \/ \E id \in IdInputs : \E in \in DecomposeInputs :
          Alone(FeatureDecomposeRead(w, id, in))
    \/ Alone(FeatureDecomposeCommit(w))
    \/ Alone(FeatureDecomposeFail(w))
    \/ \E id \in IdInputs : Alone(FeatureSkipRead(w, id))
    \/ Alone(FeatureSkipCommit(w))

SpecSeq == Init /\ [][SeqNext]_vars

\* One session, one call at a time: a parent, its sub-features and their
\* locking and passing.
InFamily(A) ==
  /\ Idle(Procs \ {SeqWorker})
  /\ A
  /\ UNCHANGED <<everPassed, loopVars, managerVars, sideVars>>
  /\ Bounded(FamilyMaxFeatures)'

FamilyNext ==
  \E w \in {SeqWorker} :
    \/ InFamily(FeatureGetNext(w))
    \/ InFamily(FeatureGetNextPending(w))
    \/ \E id \in IdInputs : InFamily(FeatureMarkInProgressRead(w, id))
    \/ InFamily(FeatureMarkInProgressCommit(w))
    \/ \E id \in IdInputs : InFamily(FeatureClearInProgressRead(w, id))
    \/ InFamily(FeatureClearInProgressCommit(w))
    \/ \E in \in BulkInputs : InFamily(FeatureCreateBulkRead(w, in))
    \/ InFamily(FeatureCreateBulkCommit(w))
    \/ \E id \in IdInputs : \E in \in DecomposeInputs :
          InFamily(FeatureDecomposeRead(w, id, in))
    \/ InFamily(FeatureDecomposeCommit(w))
    \/ InFamily(FeatureDecomposeFail(w))
    \/ \E id \in IdInputs : InFamily(FeatureMarkPassingRead(w, id))
    \/ InFamily(FeatureMarkPassingCommit(w))
    \/ InFamily(FeatureMarkPassingParent(w))
    \/ InFamily(FeatureMarkPassingParentCommit(w))

SpecFamily == Init /\ [][FamilyNext]_vars

\* One session and the server's requeue: the steps of the handler and those
\* of the session's call interleave.
BesideRequeue(A) ==
  /\ Idle(Procs \ {SeqWorker, Server})
  /\ A
  /\ History
  /\ UNCHANGED <<loopVars, managerVars, sideVars>>
  /\ Bounded(ServerMaxFeatures)'

ServerNext ==
  \/ \E w \in {SeqWorker} :
       \/ BesideRequeue(FeatureGetNext(w))
       \/ BesideRequeue(FeatureGetNextPending(w))
       \/ \E id \in IdInputs : BesideRequeue(FeatureMarkInProgressRead(w, id))
       \/ BesideRequeue(FeatureMarkInProgressCommit(w))
       \/ \E in \in BulkInputs : BesideRequeue(FeatureCreateBulkRead(w, in))
       \/ BesideRequeue(FeatureCreateBulkCommit(w))
       \/ \E id \in IdInputs : BesideRequeue(FeatureMarkPassingRead(w, id))
       \/ BesideRequeue(FeatureMarkPassingCommit(w))
  \/ \E id \in IdInputs : BesideRequeue(RequeueFeatureRead(id))
  \/ BesideRequeue(RequeueFeatureCommit)

SpecServer == Init /\ [][ServerNext]_vars

\* One session and the server's skip: the two ways to skip a feature.
BesideSkip(A) ==
  /\ Idle(Procs \ {SeqWorker, Server})
  /\ A
  /\ UNCHANGED <<everPassed, loopVars, managerVars, sideVars>>
  /\ Bounded(ServerMaxFeatures)'

SkipNext ==
  \/ \E w \in {SeqWorker} :
       \/ BesideSkip(FeatureGetNext(w))
       \/ BesideSkip(FeatureGetNextPending(w))
       \/ \E in \in BulkInputs : BesideSkip(FeatureCreateBulkRead(w, in))
       \/ BesideSkip(FeatureCreateBulkCommit(w))
       \/ \E id \in IdInputs : BesideSkip(FeatureMarkPassingRead(w, id))
       \/ BesideSkip(FeatureMarkPassingCommit(w))
       \/ \E id \in IdInputs : BesideSkip(FeatureSkipRead(w, id))
       \/ BesideSkip(FeatureSkipCommit(w))
  \/ \E id \in IdInputs : BesideSkip(SkipFeatureRead(id))
  \/ BesideSkip(SkipFeatureCommit)

SpecSkip == Init /\ [][SkipNext]_vars

\* One session, one call at a time: it creates features, locks them, skips
\* them, marks them passing and asks for the next one.
InQueue(A) ==
  /\ Idle(Procs \ {SeqWorker})
  /\ A
  /\ UNCHANGED <<everPassed, loopVars, managerVars, sideVars>>
  /\ Bounded(QueueMaxFeatures)'

QueueNext ==
  \E w \in {SeqWorker} :
    \/ InQueue(FeatureGetNext(w))
    \/ InQueue(FeatureGetNextPending(w))
    \/ \E id \in IdInputs : InQueue(FeatureMarkInProgressRead(w, id))
    \/ InQueue(FeatureMarkInProgressCommit(w))
    \/ \E in \in BulkInputs : InQueue(FeatureCreateBulkRead(w, in))
    \/ InQueue(FeatureCreateBulkCommit(w))
    \/ \E id \in IdInputs : InQueue(FeatureMarkPassingRead(w, id))
    \/ InQueue(FeatureMarkPassingCommit(w))
    \/ \E id \in IdInputs : InQueue(FeatureSkipRead(w, id))
    \/ InQueue(FeatureSkipCommit(w))

SpecQueue == Init /\ [][QueueNext]_vars

\* One agent process: the steps of its loop, and during a session the tools,
\* one call at a time.
InLoop(A) ==
  A /\ UNCHANGED <<everPassed, managerVars, sideVars>> /\ Bounded(AgentMaxFeatures)'

InSession(w, A) ==
  /\ agent[w].phase = "session"
  /\ Idle(Procs \ {w})
  /\ A
  /\ UNCHANGED <<everPassed, loopVars, managerVars, sideVars>>
  /\ Bounded(AgentMaxFeatures)'

AgentNext ==
  \E w \in {SeqWorker} :
    \/ InLoop(RunAutonomousAgent(w))
    \/ InLoop(AgentCheckCompletion(w))
    \/ InLoop(AgentBeginSession(w))
    \/ \E status \in {"continue", "error"} :
         InLoop(AgentSessionReturns(w, status, 0))
    \/ \E status \in {"continue", "error"} : InLoop(AgentEndSession(w, status))
    \/ InLoop(AgentKilled(w))
    \/ \E in \in BulkInputs : InSession(w, FeatureCreateBulkRead(w, in))
    \/ InSession(w, FeatureCreateBulkCommit(w))
    \/ \E id \in IdInputs : InSession(w, FeatureMarkInProgressRead(w, id))
    \/ InSession(w, FeatureMarkInProgressCommit(w))
    \/ \E id \in IdInputs : InSession(w, FeatureMarkPassingRead(w, id))
    \/ InSession(w, FeatureMarkPassingCommit(w))

SpecAgent == Init /\ [][AgentNext]_vars

\* One session that creates, locks and decomposes, one call at a time, while
\* attempts are recorded for features in progress, as the agent loops do
\* after their sessions, and stuck detection is asked.
WhileStuck(A) ==
  /\ Idle(Procs \ {SeqWorker})
  /\ A
  /\ UNCHANGED <<everPassed, loopVars, managerVars, sideVars>>
  /\ Bounded(UnstickMaxFeatures)'
  /\ Len(attempts') <= MaxCounted
  /\ \A k \in DOMAIN attempts' : attempts'[k].count <= MAX_FEATURE_ATTEMPTS

BetweenCalls(A) == Idle(Procs) /\ A /\ UNCHANGED <<store, pc, loc>>

UnstickNext ==
  \E w \in {SeqWorker} :
    \/ \E in \in BulkInputs : WhileStuck(FeatureCreateBulkRead(w, in))
    \/ WhileStuck(FeatureCreateBulkCommit(w))
    \/ \E id \in IdInputs : WhileStuck(FeatureMarkInProgressRead(w, id))
    \/ WhileStuck(FeatureMarkInProgressCommit(w))
    \/ \E id \in IdInputs : \E in \in DecomposeInputs :
          WhileStuck(FeatureDecomposeRead(w, id, in))
    \/ WhileStuck(FeatureDecomposeCommit(w))
    \/ WhileStuck(FeatureDecomposeFail(w))
    \/ \E id \in CurrentFeatureIds(store) \ {0} :
          WhileStuck(BetweenCalls(RecordFeatureAttempt(w, id)))
    \/ WhileStuck(BetweenCalls(GetStuckFeatureId(w)))

SpecUnstick == Init /\ [][UnstickNext]_vars

\* The orchestrator beside its workers: the handlers of the server on the
\* agents of the project, the loops of the agent processes it has started,
\* and the tools of their sessions.
OnServer(A) ==
  /\ A
  /\ UNCHANGED <<everPassed, sideVars>>
  /\ Bounded(ManagerMaxFeatures)'

\* A step of the loop of a worker process that is not suspended.
Supervised(w, A) ==
  /\ w \in DOMAIN agents /\ agents[w].status # "paused"
  /\ A
  /\ UNCHANGED <<everPassed, managerVars, sideVars>>
  /\ Bounded(ManagerMaxFeatures)'

\* A step of a tool call of the session of a worker that is not suspended.
InWorker(w, A) ==
  /\ w \in DOMAIN agents /\ agents[w].status # "paused"
  /\ agent[w].phase = "session"
  /\ A
  /\ agents' = [agents EXCEPT ![w] = Holding(@, last')]
  /\ UNCHANGED <<everPassed, loopVars, sideVars>>
  /\ UNCHANGED <<registry, feature_locks, config, manager, project>>
  /\ Bounded(ManagerMaxFeatures)'

ManagerNext ==
  \/ OnServer(GetMultiManager)
  \/ OnServer(SpawnAgent)
  \/ OnServer(StopAll)
  \/ OnServer(CheckCompletionLoop)
  \/ \E w \in Workers :
       \/ OnServer(StartAgent(w))
       \/ OnServer(StopAgent(w))
       \/ OnServer(PauseAgent(w))
       \/ OnServer(ResumeAgent(w))
       \/ OnServer(Healthcheck(w))
       \/ \E id \in Ids(store) : OnServer(LockFeature(id, w))
       \/ Supervised(w, AgentCheckCompletion(w))
       \/ Supervised(w, AgentBeginSession(w))
       \/ OnServer(AgentKilled(w) /\ UNCHANGED managerVars)
       \/ \E in \in {i \in BulkInputs : i.bad = 0} :
            InWorker(w, FeatureCreateBulkRead(w, in))
       \/ InWorker(w, FeatureCreateBulkCommit(w))
       \/ \E id \in IdInputs : InWorker(w, FeatureMarkInProgressRead(w, id))
       \/ InWorker(w, FeatureMarkInProgressCommit(w))
       \/ \E id \in IdInputs : InWorker(w, FeatureMarkPassingRead(w, id))
       \/ InWorker(w, FeatureMarkPassingCommit(w))

SpecManager == Init /\ [][ManagerNext]_vars


\* The agents of the project as the operator spawns, starts, stops and
\* removes them and changes max_parallel_agents.
LimitNext ==
  \/ \E max \in 1..MaxParallelAgents :
       OnServer(UpdateConfig(max, config.auto_stop_on_completion))
  \/ OnServer(GetMultiManager)
  \/ OnServer(SpawnAgent)
  \/ \E w \in Workers :
       \/ OnServer(StartAgent(w))
       \/ OnServer(StopAgent(w))
       \/ OnServer(RemoveAgent(w))

SpecLimit == Init /\ [][LimitNext]_vars


\* The completion check beside one agent: the operator starts, pauses,
\* resumes and stops the agent while its session creates features and marks
\* them passing.  _check_completion_loop is a task of the server's event
\* loop that sleeps 30 seconds between two rounds: as long as the task
\* exists, its next round is run.
CompletionNext ==
  \/ OnServer(GetMultiManager)
  \/ OnServer(SpawnAgent)
  \/ OnServer(StopAll)
  \/ OnServer(CheckCompletionLoop)
  \/ \E w \in Workers :
       \/ OnServer(StartAgent(w))
       \/ OnServer(StopAgent(w))
       \/ OnServer(PauseAgent(w))
       \/ OnServer(ResumeAgent(w))
       \/ Supervised(w, AgentCheckCompletion(w))
       \/ Supervised(w, AgentBeginSession(w))
       \/ \E in \in {i \in BulkInputs : i.bad = 0} :
            InWorker(w, FeatureCreateBulkRead(w, in))
       \/ InWorker(w, FeatureCreateBulkCommit(w))
       \/ \E id \in IdInputs : InWorker(w, FeatureMarkPassingRead(w, id))
       \/ InWorker(w, FeatureMarkPassingCommit(w))

SpecCompletion ==
  /\ Init
  /\ [][CompletionNext]_vars
  /\ WF_vars(OnServer(CheckCompletionLoop))


\* The server is started again after a crash while an agent held locks: the
\* manager of the project is made anew at the next request.
StartupNext ==
  \/ OnServer(GetMultiManager)
  \/ OnServer(SpawnAgent)
  \/ OnServer(ServerRestart)
  \/ \E w \in Workers :
       \/ OnServer(StartAgent(w))
       \/ \E id \in Ids(store) : OnServer(LockFeature(id, w))
       \/ Supervised(w, AgentCheckCompletion(w))
       \/ Supervised(w, AgentBeginSession(w))
       \/ \E in \in {i \in BulkInputs : i.bad = 0} :
            InWorker(w, FeatureCreateBulkRead(w, in))
       \/ InWorker(w, FeatureCreateBulkCommit(w))
       \/ \E id \in IdInputs : InWorker(w, FeatureMarkInProgressRead(w, id))
       \/ InWorker(w, FeatureMarkInProgressCommit(w))

SpecStartup == Init /\ [][StartupNext]_vars


\* The repository of a project with one agent in worktree mode: commits on
\* the target branch and on the agent's branch, and merges of the agent's
\* branch, one git command sequence at a time.
OnRepository(A) ==
  /\ A
  /\ UNCHANGED <<store, pc, loc, everPassed, attempts>>
  /\ UNCHANGED <<loopVars, managerVars, usage, loaded>>

MergeNext ==
  \E w \in {SeqWorker} :
    \/ OnRepository(CreateWorktree(w))
    \/ \E f \in Files : \E v \in 1..MaxVersion :
         OnRepository(CommitOnTarget(f, v))
    \/ \E f \in Files : \E v \in 1..MaxVersion :
         OnRepository(CommitInWorktree(w, f, v))
    \/ OnRepository(MergeWorktree(w))

SpecMerge == Init /\ [][MergeNext]_vars


\* The registry under contention: the calls of the server on the projects
\* table, the project_agents table and the project_configs table, each with
\* the attempts that find the database locked.
OnRegistry(A) ==
  /\ A
  /\ UNCHANGED <<store, pc, loc, everPassed, attempts>>
  /\ UNCHANGED <<loopVars, sideVars>>

ContentionNext ==
  \E busy \in 0..MaxContention :
    \/ \E status \in {"active", "paused", "finished", "archived"} :
         OnRegistry(UpdateProjectStatus(status, busy))
    \/ \E max \in 1..MaxParallelAgents : \E auto \in BOOLEAN :
         OnRegistry(CreateOrUpdateProjectConfig(max, auto, busy))
    \/ \E w \in Workers : OnRegistry(CreateProjectAgent(w, busy))
    \/ \E w \in Workers : OnRegistry(DeleteProjectAgent(w, busy))

SpecContention == Init /\ [][ContentionNext]_vars

\* One session that creates features and decomposes them into lists of
\* every length up to MaxManyChildren, one call at a time.
WithChildren(A) ==
  /\ Idle(Procs \ {SeqWorker})
  /\ A
  /\ UNCHANGED <<everPassed, loopVars, managerVars, sideVars>>
  /\ Bounded(ChildrenMaxFeatures)'

ChildrenNext ==
  \E w \in {SeqWorker} :
    \/ \E in \in BulkInputs : WithChildren(FeatureCreateBulkRead(w, in))
    \/ WithChildren(FeatureCreateBulkCommit(w))
    \/ \E id \in IdInputs : \E in \in ManyChildren :
          WithChildren(FeatureDecomposeRead(w, id, in))
    \/ WithChildren(FeatureDecomposeCommit(w))

SpecChildren == Init /\ [][ChildrenNext]_vars

\* One session and the operator at the server, one call at a time: the
\* session creates features and works on them, the operator requeues,
\* deletes and restarts the project.
OneAtATime(p, A) ==
  /\ Idle(Procs \ {p})
  /\ A
  /\ UNCHANGED <<everPassed, sideVars>>
  /\ Bounded(DeleteMaxFeatures)'

OnTable(p, A) == OneAtATime(p, A /\ UNCHANGED <<loopVars, managerVars>>)

DeleteNext ==
  \/ \E w \in {SeqWorker} :
       \/ \E in \in BulkInputs : OnTable(w, FeatureCreateBulkRead(w, in))
       \/ OnTable(w, FeatureCreateBulkCommit(w))
       \/ \E id \in IdInputs : OnTable(w, FeatureMarkInProgressRead(w, id))
       \/ OnTable(w, FeatureMarkInProgressCommit(w))
       \/ \E id \in IdInputs : OnTable(w, FeatureMarkPassingRead(w, id))
       \/ OnTable(w, FeatureMarkPassingCommit(w))
  \/ \E id \in IdInputs : OnTable(Server, RequeueFeatureRead(id))
  \/ OnTable(Server, RequeueFeatureCommit)
  \/ \E id \in IdInputs : OnTable(Server, DeleteFeatureRead(id))
  \/ OnTable(Server, DeleteFeatureCommit)
  \/ Idle(Procs) /\ OneAtATime(Server, RestartProject)

SpecDelete == Init /\ [][DeleteNext]_vars

\* One agent process under a cost limit: the steps of its loop, sessions
\* that cost up to MaxCost, and during a session the tools, one call at a
\* time.
InBudget(A) ==
  /\ A
  /\ UNCHANGED <<everPassed, managerVars, git, loaded>>
  /\ Bounded(UsageMaxFeatures)'
  /\ usage'.total <= MaxUsage

OnBudget(w, A) ==
  /\ agent[w].phase = "session"
  /\ Idle(Procs \ {w})
  /\ InBudget(A /\ UNCHANGED <<loopVars, usage>>)

UsageNext ==
  \E w \in {SeqWorker} :
    \/ \E limit \in 0..MaxLimit : InBudget(SetUsageLimit(limit))
    \/ InBudget(RunAutonomousAgent(w) /\ UNCHANGED usage)
    \/ InBudget(AgentCheckCompletion(w) /\ UNCHANGED usage)
    \/ InBudget(AgentBeginSession(w) /\ UNCHANGED usage)
    \/ \E status \in {"continue", "error"} : \E cost \in 0..MaxCost :
         InBudget(AgentSessionReturns(w, status, cost))
    \/ \E status \in {"continue", "error"} :
         InBudget(AgentEndSession(w, status) /\ UNCHANGED usage)
    \/ InBudget(AgentKilled(w) /\ UNCHANGED usage)
    \/ \E in \in BulkInputs : OnBudget(w, FeatureCreateBulkRead(w, in))
    \/ OnBudget(w, FeatureCreateBulkCommit(w))
    \/ \E id \in IdInputs : OnBudget(w, FeatureMarkInProgressRead(w, id))
    \/ OnBudget(w, FeatureMarkInProgressCommit(w))

SpecUsage == Init /\ [][UsageNext]_vars

\* The lock table of the orchestrator with two agents: they are spawned,
\* stopped and removed, and lock_feature and unlock_feature are called for
\* either of them on the feature ids up to MaxLocked.
LocksNext ==
  \/ \E max \in 1..MaxParallelAgents :
       OnServer(UpdateConfig(max, config.auto_stop_on_completion))
  \/ OnServer(GetMultiManager)
  \/ OnServer(SpawnAgent)
  \/ \E w \in Workers :
       \/ OnServer(StopAgent(w))
       \/ OnServer(RemoveAgent(w))
       \/ \E id \in 1..MaxLocked : OnServer(LockFeature(id, w))
       \/ \E id \in 1..MaxLocked : OnServer(UnlockFeature(id, w))

SpecLocks == Init /\ [][LocksNext]_vars

\* One session, one call at a time: it creates features, decomposes them and
\* their sub-features, and marks features passing.
InCascade(A) ==
  /\ Idle(Procs \ {SeqWorker})
  /\ A
  /\ UNCHANGED <<everPassed, loopVars, managerVars, sideVars>>
  /\ Bounded(CascadeMaxFeatures)'

CascadeNext ==
  \E w \in {SeqWorker} :
    \/ \E in \in BulkInputs : InCascade(FeatureCreateBulkRead(w, in))
    \/ InCascade(FeatureCreateBulkCommit(w))
    \/ \E id \in IdInputs : \E in \in DecomposeInputs :
          InCascade(FeatureDecomposeRead(w, id, in))
    \/ InCascade(FeatureDecomposeCommit(w))
    \/ \E id \in IdInputs : InCascade(FeatureMarkPassingRead(w, id))
    \/ InCascade(FeatureMarkPassingCommit(w))
    \/ InCascade(FeatureMarkPassingParent(w))
    \/ InCascade(FeatureMarkPassingParentCommit(w))

SpecCascade == Init /\ [][CascadeNext]_vars

\* The loop of one agent process whose sessions create features, decompose
\* them and their sub-features in two, mark features passing and ask for the
\* next one.
DrainLoop(A) ==
  A /\ UNCHANGED <<everPassed, managerVars, sideVars>> /\ Bounded(DrainMaxFeatures)'

Draining(w, A) ==
  /\ agent[w].phase = "session"
  /\ Idle(Procs \ {w})
  /\ A
  /\ UNCHANGED <<everPassed, loopVars, managerVars, sideVars>>
  /\ Bounded(DrainMaxFeatures)'

DrainNext ==
  \E w \in {SeqWorker} :
    \/ DrainLoop(RunAutonomousAgent(w))
    \/ DrainLoop(AgentCheckCompletion(w))
    \/ DrainLoop(AgentBeginSession(w))
    \/ DrainLoop(AgentSessionReturns(w, "continue", 0))
    \/ DrainLoop(AgentEndSession(w, "continue"))
    \/ \E in \in {i \in BulkInputs : i.bad = 0} :
          Draining(w, FeatureCreateBulkRead(w, in))
    \/ Draining(w, FeatureCreateBulkCommit(w))
    \/ \E id \in IdInputs : \E in \in {d \in DecomposeInputs : d.valid /\ d.n = 2} :
          Draining(w, FeatureDecomposeRead(w, id, in))
    \/ Draining(w, FeatureDecomposeCommit(w))
    \/ \E id \in IdInputs : Draining(w, FeatureMarkPassingRead(w, id))
    \/ Draining(w, FeatureMarkPassingCommit(w))
    \/ Draining(w, FeatureMarkPassingParent(w))
    \/ Draining(w, FeatureMarkPassingParentCommit(w))
    \/ Draining(w, FeatureGetNext(w))
    \/ Draining(w, FeatureGetNextPending(w))

SpecDrain == Init /\ [][DrainNext]_vars

\* Two sessions whose calls interleave step by step, on a table that one of
\* them fills with its first feature: they lock and unlock features, mark
\* them passing and decompose them in two.
Racing(A) ==
  /\ A
  /\ UNCHANGED <<everPassed, loopVars, managerVars, sideVars>>
  /\ Bounded(RaceMaxFeatures)'

RaceNext ==
  \E w \in Workers :
    \/ \E in \in {i \in BulkInputs : i.bad = 0 /\ i.n = 1} :
          /\ Ids(store) = {} /\ Idle(Workers)
          /\ Racing(FeatureCreateBulkRead(w, in))
    \/ Racing(FeatureCreateBulkCommit(w))
    \/ \E id \in IdInputs : Racing(FeatureMarkInProgressRead(w, id))
    \/ Racing(FeatureMarkInProgressCommit(w))
    \/ \E id \in IdInputs : Racing(FeatureClearInProgressRead(w, id))
    \/ Racing(FeatureClearInProgressCommit(w))
    \/ \E id \in IdInputs : Racing(FeatureMarkPassingRead(w, id))
    \/ Racing(FeatureMarkPassingCommit(w))
    \/ Racing(FeatureMarkPassingParent(w))
    \/ Racing(FeatureMarkPassingParentCommit(w))
    \/ \E id \in IdInputs : \E in \in {d \in DecomposeInputs : d.valid /\ d.n = 2} :
          Racing(FeatureDecomposeRead(w, id, in))
    \/ Racing(FeatureDecomposeCommit(w))

SpecRace == Init /\ [][RaceNext]_vars

\* Two agent processes on one project directory: each records and clears
\* attempts, and the reads and writes of the file interleave.
OnSharedFile(A) ==
  /\ A
  /\ UNCHANGED <<store, everPassed, loopVars, managerVars, git, usage>>
  /\ \A k \in DOMAIN attempts' : attempts'[k].count <= MaxRecorded
  /\ \A w \in Workers :
       \A k \in DOMAIN loaded'[w] : loaded'[w][k].count < MaxRecorded

AttemptsNext ==
  \E w \in Workers :
    \/ \E id \in 1..MaxRecordedFeatures :
         OnSharedFile(RecordFeatureAttemptLoad(w, id))
    \/ OnSharedFile(RecordFeatureAttemptWrite(w))
    \/ \E id \in 1..MaxRecordedFeatures :
         OnSharedFile(ClearFeatureAttemptLoad(w, id))
    \/ OnSharedFile(ClearFeatureAttemptWrite(w))

SpecAttempts == Init /\ [][AttemptsNext]_vars

\* One session and the server, one call at a time: both create features in
\* bulk, the server also at explicit priorities.
InTurn(A) ==
  /\ \E p \in {SeqWorker, Server} : Idle(Procs \ {p})
  /\ A
  /\ UNCHANGED <<everPassed, loopVars, managerVars, sideVars>>
  /\ Bounded(BulkMaxFeatures)'

BulkNext ==
  \/ \E w \in {SeqWorker} :
       \/ \E in \in BulkInputs : InTurn(FeatureCreateBulkRead(w, in))
       \/ InTurn(FeatureCreateBulkCommit(w))
  \/ \E in \in BulkRequests : InTurn(BulkCreateFeaturesRead(in))
  \/ InTurn(BulkCreateFeaturesCommit)

SpecBulk == Init /\ [][BulkNext]_vars

\* The functions of progress.py on the attempts file, called in any order on
\* any feature id, as the loops of the agents of one project directory do.
OnAttemptsFile(A) ==
  /\ A
  /\ UNCHANGED <<store, pc, loc, everPassed>>
  /\ UNCHANGED <<loopVars, managerVars, sideVars>>
  /\ \A k \in DOMAIN attempts' : attempts'[k].count <= MaxAttempts

StuckNext ==
  \E w \in Workers :
    \/ \E id \in 1..MaxStuckFeatures : OnAttemptsFile(RecordFeatureAttempt(w, id))
    \/ \E id \in 1..MaxStuckFeatures : OnAttemptsFile(ClearFeatureAttempt(w, id))
    \/ OnAttemptsFile(ResetStuckDetection(w))
    \/ OnAttemptsFile(CheckStuckDetection(w))
    \/ OnAttemptsFile(GetStuckFeatureId(w))

SpecStuck == Init /\ [][StuckNext]_vars

\* ---------------------------------------------------------------- claims
\* The answer of a call is read from last: the call that returned in the
\* step leading to the state (last) or in the step looked at (last').

\* C1: of two concurrent feature_mark_in_progress calls on a feature that is
\* neither passing nor in progress exactly one succeeds, the check and the
\* setting of the flag being one atomic step: a call that succeeds sets the
\* flag on a feature that is not in progress at that moment.
C1_OneLockSucceeds ==
  [][last'.op = "mark_in_progress" /\ last'.res = "ok"
       => ~store[last'.id].in_progress]_vars

C8_SmallestPriorityThenId ==
  last.op = "get_next" /\ last.res = "feature" =>
    LET f == last.id
        Free == {i \in Ids(store) : /\ ~store[i].passes
                                    /\ ~store[i].in_progress
                                    /\ ~store[i].is_decomposed}
    IN /\ f \in Free
       /\ \A j \in Free :
            \/ store[f].priority < store[j].priority
            \/ store[f].priority = store[j].priority /\ f <= j

\* feature_get_next has returned the lower id of two free features that
\* share the smallest priority.
C8_Witness ==
  /\ last.op = "get_next" /\ last.res = "feature"
  /\ \E j \in Ids(store) :
       /\ j > last.id
       /\ store[j].priority = store[last.id].priority
       /\ ~store[j].passes /\ ~store[j].in_progress /\ ~store[j].is_decomposed

\* C9: feature_get_next never returns a feature whose is_decomposed is true.
C9_NeverDecomposed ==
  last.op = "get_next" /\ last.res = "feature"
    => ~store[last.id].is_decomposed

\* feature_get_next has returned a feature although a decomposed parent that
\* is neither passing nor in progress has a smaller priority.
C9_Witness ==
  /\ last.op = "get_next" /\ last.res = "feature"
  /\ \E i \in Ids(store) :
       /\ store[i].is_decomposed
       /\ ~store[i].passes /\ ~store[i].in_progress
       /\ store[i].priority < store[last.id].priority

\* C3: a feature_decompose of a parent at priority P into n sub-features
\* inserts them at priorities P+1 .. P+n in the order supplied, raises by n
\* the priority of every feature that was above P, leaves every other
\* priority alone, keeps every id, and the table grows by exactly n rows.
C3_DecomposeRenumbers ==
  [][last'.op = "decompose" /\ last'.res = "ok" =>
       LET n == last'.n
           P == store[last'.id].priority
           new == Ids(store') \ Ids(store)
       IN /\ Ids(store) \subseteq Ids(store')
          /\ Cardinality(Ids(store')) = Cardinality(Ids(store)) + n
          /\ {store'[c].priority : c \in new} = (P + 1)..(P + n)
          /\ \A c, d \in new :
               c < d => store'[c].priority < store'[d].priority
          /\ \A i \in Ids(store) :
               store'[i].priority =
                 IF store[i].priority > P THEN store[i].priority + n
                 ELSE store[i].priority]_vars

\* A decomposition has returned and a feature that is not one of its
\* sub-features stands above them: it was shifted.
C3_Witness ==
  /\ last.op = "decompose" /\ last.res = "ok" /\ last.n >= 2
  /\ \E i \in Ids(store) :
       /\ store[i].parent_id # last.id
       /\ store[i].priority > store[last.id].priority + last.n

\* C4: feature_mark_passing on the last sub-feature that was not passing
\* makes the decomposed parent passing, and a feature_mark_passing on a
\* sub-feature does not make the parent passing while one of the parent's
\* sub-features is still not passing.
C4_ParentFollowsChildren ==
  [][/\ last'.op = "mark_passing" /\ last'.id # 0
          /\ store'[last'.id].parent_id # 0
          => LET p == store'[last'.id].parent_id
             IN (\A c \in Ids(store') :
                    store'[c].parent_id = p => store'[c].passes)
                  => store'[p].passes
     /\ \A w \in Workers : \A p \in Ids(store) :
          /\ pc[w] \in {"mp_commit", "mp_parent", "mp_parent_commit"}
          /\ store[loc[w].fid].parent_id = p
          /\ ~store[p].passes /\ store'[p].passes
          => \A c \in Ids(store') :
               store'[c].parent_id = p => store'[c].passes]_vars

\* feature_mark_passing on the last sub-feature has returned and the parent
\* is passing.
C4_Witness ==
  /\ last.op = "mark_passing" /\ last.res = "parent_completed"
  /\ store[store[last.id].parent_id].passes
  /\ Cardinality({c \in Ids(store) :
                    store[c].parent_id = store[last.id].parent_id}) >= 2

\* C5: a feature_decompose that is rejected (the parent passing or already
\* decomposed, fewer than 2 sub-features, an invalid sub-feature) or that
\* fails part-way leaves the table as it was before the call.
C5_FailedDecomposeChangesNothing ==
  [][last'.op = "decompose" /\ last'.res # "ok" => store' = store]_vars

\* A decomposition has failed after its priority shift was flushed: a feature
\* stands above the parent, and the parent is not decomposed.
C5_Witness ==
  /\ last.op = "decompose" /\ last.res = "db_error"
  /\ ~store[last.id].is_decomposed
  /\ \E i \in Ids(store) : store[i].priority > store[last.id].priority

\* C6: what a concurrent feature_get_next can read of a decomposition is the
\* table before it or the table after all of it: the step that ends a
\* feature_decompose leaves the table alone or writes the shift, the n
\* sub-features and the parent's flag together, sub-features are never in
\* the table without the flag of their parent, and when nothing else wrote
\* the rows the decomposition had loaded no sub-feature shares a priority
\* with another feature.
C6_DecompositionIsOneWrite ==
  [][/\ \A w \in Workers :
          pc[w] = "dc_commit" /\ pc'[w] # "dc_commit" /\ store' # store =>
            LET l == loc[w]
                P == l.row.priority
                new == Ids(store') \ Ids(store)
                fresh == /\ store[l.fid].priority = P
                         /\ \A i \in Ids(store) \ {l.fid} :
                              IF store[i].priority > P
                              THEN /\ i \in DOMAIN l.shift
                                   /\ l.shift[i] = store[i].priority
                              ELSE i \notin DOMAIN l.shift
            IN /\ Cardinality(new) = l.n
               /\ \A c \in new : store'[c].parent_id = l.fid
               /\ {store'[c].priority : c \in new} = (P + 1)..(P + l.n)
               /\ \A i \in DOMAIN l.shift :
                    store'[i].priority = l.shift[i] + l.n
               /\ store'[l.fid].is_decomposed
               /\ fresh => \A c \in new : \A i \in Ids(store') \ {c} :
                             store'[i].priority # store'[c].priority
     /\ \A c \in Ids(store') :
          store'[c].parent_id # 0
            => store'[store'[c].parent_id].is_decomposed]_vars

\* A decomposition that shifted a feature has committed between the two
\* queries of another session's feature_get_next.
C6_Witness ==
  /\ last.op = "decompose" /\ last.res = "ok"
  /\ \E w \in Workers : w # last.w /\ pc[w] = "gn_pending"
  /\ \E i \in Ids(store) :
       /\ store[i].parent_id # last.id
       /\ store[i].priority > store[last.id].priority + last.n

C10_SkipOfPassingRejected ==
  [][/\ last'.op \in {"skip", "skip_feature"}
     /\ last'.id \in Ids(store)
     /\ store[last'.id].passes
     => last'.res = "already_passing" /\ store' = store]_vars

\* C11: a feature_skip of a feature that is not passing sets its priority to
\* the largest priority of the table plus one and clears its in_progress;
\* every other feature, and every other field of the skipped one, stays as it
\* was, so the skipped feature stands in the dequeue order after every
\* feature that was pending at the skip, and no row leaves the table.
C11_SkipMovesBehindPending ==
  [][last'.op = "skip" /\ last'.res = "ok" =>
       LET f == last'.id
           top == CHOOSE p \in {store[i].priority : i \in Ids(store)} :
                    \A i \in Ids(store) : store[i].priority <= p
       IN /\ f \in Ids(store) /\ ~store[f].passes
          /\ Ids(store') = Ids(store)
          /\ store'[f] = [store[f] EXCEPT !.priority = top + 1,
                                          !.in_progress = FALSE]
          /\ \A j \in Ids(store) \ {f} :
               /\ store'[j] = store[j]
               /\ store'[j].priority < store'[f].priority]_vars

\* feature_skip has returned for a feature, and a feature of a higher id that
\* is neither passing nor in progress now stands before it.
C11_Witness ==
  /\ last.op = "skip" /\ last.res = "ok"
  /\ \E j \in Ids(store) :
       /\ j > last.id
       /\ ~store[j].passes /\ ~store[j].in_progress
       /\ store[j].priority < store[last.id].priority

\* C12: stuck detection reports a feature exactly when an attempt count has
\* reached MAX_FEATURE_ATTEMPTS: check_stuck_detection answers "stuck" and
\* get_stuck_feature_id answers a feature if and only if some feature's count
\* is at least the threshold, the feature they name is one whose count is at
\* least the threshold, and a feature whose count is the threshold minus one
\* is never named.
C12_StuckIffThresholdReached ==
  LET count(f) == IF \E k \in DOMAIN attempts : attempts[k].id = f
                  THEN attempts[CHOOSE k \in DOMAIN attempts :
                                  attempts[k].id = f].count
                  ELSE 0
      AtThreshold == {f \in {attempts[k].id : k \in DOMAIN attempts} :
                        count(f) >= MAX_FEATURE_ATTEMPTS}
  IN /\ last.op = "get_stuck_feature_id" =>
          /\ last.res = "stuck" <=> AtThreshold # {}
          /\ last.res = "stuck" => last.id \in AtThreshold
          /\ last.res # "stuck" => last.res = "none" /\ last.id = 0
     /\ last.op = "check_stuck_detection" =>
          /\ last.res = "stuck" <=> AtThreshold # {}
          /\ last.res = "stuck" => last.id \in AtThreshold
          /\ last.res # "stuck" => last.res = "not_stuck"

\* get_stuck_feature_id has answered a feature whose count is exactly the
\* threshold, passing over a feature that stands before it in the file with
\* a count of the threshold minus one.
C12_Witness ==
  /\ last.op = "get_stuck_feature_id" /\ last.res = "stuck"
  /\ \E k, j \in DOMAIN attempts :
       /\ j < k
       /\ attempts[k].id = last.id
       /\ attempts[k].count = MAX_FEATURE_ATTEMPTS
       /\ attempts[j].count = MAX_FEATURE_ATTEMPTS - 1

\* C13: a bulk create of k features without explicit priorities, by the
\* feature_create_bulk tool or by the server's bulk_create_features, gives
\* the k new rows, in input order, the priorities max + 1 .. max + k, where
\* max is the largest priority of the table before the call (0 when the
\* table is empty), and changes no other row.
C13_BulkPrioritiesContinue ==
  [][/\ last'.res = "ok"
     /\ \/ last'.op = "create_bulk"
        \/ /\ last'.op = "bulk_create_features"
           /\ \A k \in DOMAIN loc[Server].shift : loc[Server].shift[k] = 0
     => LET k == last'.n
            top == IF Ids(store) = {} THEN 0
                   ELSE CHOOSE p \in {store[i].priority : i \in Ids(store)} :
                          \A i \in Ids(store) : store[i].priority <= p
            base == IF Ids(store) = {} THEN 0
                    ELSE CHOOSE m \in Ids(store) : \A i \in Ids(store) : i <= m
        IN /\ Ids(store') = Ids(store) \cup {base + j : j \in 1..k}
           /\ \A j \in 1..k : store'[base + j].priority = top + j
           /\ \A i \in Ids(store) : store'[i] = store[i]]_vars

\* feature_create_bulk has returned for two features on a table whose largest
\* priority, set by an explicit priority of the server's bulk create, was
\* above its number of rows: the two new rows, in id order, continue from
\* that priority.
C13_Witness ==
  /\ last.op = "create_bulk" /\ last.res = "ok" /\ last.n = 2
  /\ LET m == CHOOSE i \in Ids(store) : \A j \in Ids(store) : j <= i
     IN /\ m >= 3
        /\ store[m].priority = store[m - 1].priority + 1
        /\ store[m - 1].priority = store[m - 2].priority + 1
        /\ store[m].priority > m

\* C14: the step that ends a successful feature_decompose leaves the parent
\* with is_decomposed true and in_progress false and without an attempt count
\* in the attempts file, so that stuck detection does not name the parent.
C14_DecomposedParentIsReset ==
  [][last'.op = "decompose" /\ last'.res = "ok" =>
       LET parent == last'.id
       IN /\ store'[parent].is_decomposed
          /\ ~store'[parent].in_progress
          /\ \A k \in DOMAIN attempts' : attempts'[k].id # parent
          /\ \A k \in DOMAIN attempts :
               attempts[k].id # parent =>
                 \E j \in DOMAIN attempts' : attempts'[j] = attempts[k]]_vars

\* feature_decompose has returned for a parent: it is decomposed, not in
\* progress, its sub-features are in the table and the attempts file has no
\* entry for it.
C14_Witness ==
  /\ last.op = "decompose" /\ last.res = "ok"
  /\ store[last.id].is_decomposed /\ ~store[last.id].in_progress
  /\ \E c \in Ids(store) : store[c].parent_id = last.id
  /\ \A k \in DOMAIN attempts : attempts[k].id # last.id

\* C20: the attempt count of a feature grows only when a session ran to its
\* end without completing it: when the agent process is stopped or killed,
\* and when run_agent_session ends because the session raised (status
\* "error"), no feature's count in the attempts file grows.
C20_OnlyFinishedSessionsCount ==
  [][/\ last'.op = "kill" => attempts' = attempts
     /\ last'.op = "run_agent_session" /\ last'.res = "error" =>
          \A f \in Ids(store) : CountOf(attempts', f) <= CountOf(attempts, f)]_vars

\* C15: when stop_agent or stop_all has returned, no feature is left locked
\* by a stopped agent: no entry of feature_locks names an agent whose status
\* is stopped, and no feature whose lock the worker of such an agent held is
\* in progress.
C15_StopClearsLocks ==
  [][last'.op \in {"stop_agent", "stop_all"} =>
       \A w \in DOMAIN agents' :
         agents'[w].status = "stopped" =>
           /\ \A f \in DOMAIN feature_locks' : feature_locks'[f] # w
           /\ \A f \in agents[w].held : ~store'[f].in_progress]_vars

\* C16: when healthcheck finds that the process of a worker is not alive
\* while the status of the worker is running or paused, the status becomes
\* crashed and every feature whose lock the worker held has in_progress
\* false.
C16_DeadWorkerIsCrashed ==
  [][\A w \in DOMAIN agents :
       /\ last'.op = "healthcheck" /\ last'.w = w
       /\ agents[w].status \in {"running", "paused"}
       /\ ~Alive(w)
       => /\ agents'[w].status = "crashed"
          /\ \A f \in agents[w].held : ~store'[f].in_progress]_vars

\* healthcheck has found dead a worker that was paused while it held the
\* lock of a feature: the worker is crashed and no feature is in progress.
C16_Witness ==
  /\ last.op = "healthcheck" /\ last.res = "crashed" /\ last.n >= 1
  /\ registry[last.w].status = "paused"
  /\ agents[last.w].status = "crashed"
  /\ \A f \in Ids(store) : ~store[f].in_progress

\* C19: the status recorded for a worker changes only along the edges
\* stopped to running, running to paused, stopped or crashed, paused to
\* running or stopped, and crashed to stopped: no step takes the status of
\* a registry row, or of a process manager, along any other edge.
C19_StatusFollowsEdges ==
  [][LET Edges == {<<"stopped", "running">>, <<"running", "paused">>,
                   <<"running", "stopped">>, <<"running", "crashed">>,
                   <<"paused", "running">>, <<"paused", "stopped">>,
                   <<"crashed", "stopped">>}
     IN /\ \A w \in DOMAIN registry \cap DOMAIN registry' :
             registry'[w].status # registry[w].status =>
               <<registry[w].status, registry'[w].status>> \in Edges
        /\ \A w \in DOMAIN agents \cap DOMAIN agents' :
             agents'[w].status # agents[w].status =>
               <<agents[w].status, agents'[w].status>> \in Edges]_vars

\* C17: the number of agents of the project never exceeds the
\* max_parallel_agents of its configuration, and a spawn_agent called when
\* the number of agents has reached that limit is refused.
C17_WorkersWithinLimit ==
  [][/\ Cardinality(DOMAIN agents') <= config'.max_parallel_agents
     /\ /\ last'.op = "spawn_agent"
        /\ Cardinality(DOMAIN agents) >= config.max_parallel_agents
        => last'.res = "refused"]_vars

C21_LocksReconciledAtStartup ==
  [][last'.op = "get_multi_manager" =>
       DOMAIN feature_locks' = {i \in Ids(store') : store'[i].in_progress}]_vars

\* C22: a merge_worktree of branches with conflicting content answers
\* failure, and a merge_worktree that answers a conflict leaves the target
\* branch, the agent's branch and the agent's worktree as they were, and the
\* project directory at the tip of the target with no merge under way.
C22_ConflictLeavesBranchesAlone ==
  [][last'.op = "merge_worktree" =>
       /\ Conflicts(git) # {} => last'.res = "conflict"
       /\ last'.res = "conflict" =>
            /\ git'.target = git.target
            /\ git'.branch = git.branch
            /\ git'.copy = git.copy
            /\ git'.base = git.base
            /\ ~git'.merging
            /\ git'.tree = git.target]_vars

\* merge_worktree has answered a conflict for a file that both branches
\* changed, while the agent's branch also changed a file the target did not:
\* none of the agent's changes is in the target or in the project directory.
C22_Witness ==
  /\ last.op = "merge_worktree" /\ last.res = "conflict" /\ last.n = 1
  /\ \E f \in Files :
       /\ git.branch[f] # git.base[f]
       /\ git.target[f] = git.base[f]
       /\ git.tree[f] = git.base[f]
  /\ ~git.merging

\* C23: a completion check that finds an attempt count at the threshold while
\* not every feature passes answers "decompose", leaves the loop running and
\* writes the id of a feature at the threshold to .pending_decomposition;
\* so does the check at the end of a session that returned "continue".
C23_StuckFeatureIsDecomposed ==
  [][\A w \in Workers :
       LET stuck(a) == \E k \in DOMAIN a :
                          a[k].count >= MAX_FEATURE_ATTEMPTS
           allPass == Ids(store) # {} /\ \A i \in Ids(store) : store[i].passes
           decomposing ==
             /\ agent'[w].phase # "stopped"
             /\ pending' # 0
             /\ CountOf(attempts', pending') >= MAX_FEATURE_ATTEMPTS
       IN /\ ( /\ last'.op = "check_completion_status" /\ last'.w = w
               /\ ~agent[w].first
               /\ stuck(attempts) /\ ~allPass )
            => last'.res = "decompose" /\ last'.id = pending' /\ decomposing
          /\ ( /\ last'.op = "run_agent_session" /\ last'.w = w
               /\ last'.res = "continue"
               /\ stuck(attempts') /\ ~allPass )
            => decomposing]_vars

\* The check at the top of the loop has answered "decompose" for a feature
\* in progress with three attempts, beside another feature that is not
\* passing, and the loop goes on in decomposition mode.
C23_Witness ==
  /\ last.op = "check_completion_status" /\ last.res = "decompose"
  /\ pending = last.id /\ pending \in Ids(store)
  /\ CountOf(attempts, pending) = MAX_FEATURE_ATTEMPTS
  /\ Cardinality(Ids(store)) > 1
  /\ \E w \in Workers : agent[w].phase = "begin" /\ agent[w].mode

\* C24: a call on the registry makes at most SQLITE_MAX_RETRIES attempts,
\* rides out contention that ends before the last of them, and raises the
\* busy error only after SQLITE_MAX_RETRIES attempts.
C24_BusyIsRetriedThreeTimes ==
  [][last'.op \in {"update_project_status", "create_or_update_project_config",
                   "create_project_agent", "delete_project_agent"} =>
       /\ last'.n <= SQLITE_MAX_RETRIES
       /\ last'.id < SQLITE_MAX_RETRIES => last'.res = "ok"
       /\ last'.res = "busy" => last'.n = SQLITE_MAX_RETRIES]_vars

\* C25: feature_decompose succeeds only with 2 to 5 sub-features; with fewer
\* or more the parent is not decomposed and no row is added.
C25_TwoToFiveChildren ==
  [][\A w \in Workers :
       /\ last'.op = "decompose" /\ last'.w = w /\ last'.res = "ok"
       => /\ last'.n >= 2 /\ last'.n <= 5
          /\ Cardinality(SubFeatures(store', last'.id)) \in 2..5]_vars

\* C26 as stated: only the restart of the project makes the set of feature
\* ids smaller.
C26_OnlyResetRemovesFeatures ==
  [][Ids(store) \subseteq Ids(store') \/ last'.op = "restart_project"]_vars

\* C26, amended: only the restart of the project and the deletion of one
\* feature by DELETE /features/{id} make the set of feature ids smaller, and
\* the deletion removes the one feature it names.
C26_OnlyResetAndDeleteRemoveFeatures ==
  [][\/ Ids(store) \subseteq Ids(store')
     \/ last'.op = "restart_project"
     \/ /\ last'.op = "delete_feature" /\ last'.res = "ok"
        /\ Ids(store') = Ids(store) \ {last'.id}]_vars

\* DELETE /features/{id} has removed a feature from a table that keeps a
\* later feature, which is passing.
C26_Witness ==
  /\ last.op = "delete_feature" /\ last.res = "ok"
  /\ last.id \notin Ids(store)
  /\ \E i \in Ids(store) : i > last.id /\ store[i].passes

\* C27: the loop of an agent ends for an exceeded usage limit only at the
\* check before a session, when every session that has ended has had its
\* usage recorded and its attempt tracked; from the point where a session
\* has returned and its attempt is not yet tracked, the process ends only
\* by being killed or by the completion check that follows the tracking.
C27_LimitStopsAfterRecording ==
  [][\A w \in Workers :
       /\ ( /\ last'.op = "check_usage_limits" /\ last'.w = w
            /\ agent'[w].phase = "stopped" /\ agent[w].phase # "stopped" )
          => /\ agent[w].phase = "begin"
             /\ UNCHANGED <<usage, attempts>>
       /\ ( /\ agent[w].phase \in {"session", "returned", "failed"}
            /\ agent'[w].phase = "stopped" )
          => last'.op \in {"kill", "run_agent_session"}]_vars

\* The loop has stopped at the limit after a session on a feature in
\* progress whose cost, recorded, reached the limit, and whose attempt was
\* tracked.
C27_Witness ==
  /\ last.op = "check_usage_limits" /\ last.res = "exceeded"
  /\ usage.limit > 0 /\ usage.total >= usage.limit
  /\ attempts # << >>
  /\ \A w \in Workers : agent[w].phase = "stopped"

\* C28: when the loop has processed a session (the attempt tracking after
\* it has run), no feature that is passing or decomposed has an entry in
\* .feature_attempts; nor has the parent when feature_decompose has returned.
C28_NoCountAfterPassingOrDecomposed ==
  [][/\ last'.op = "run_agent_session" =>
          \A i \in Ids(store') :
            store'[i].passes \/ store'[i].is_decomposed
              => ~Recorded(attempts', i)
     /\ last'.op = "decompose" /\ last'.res = "ok" =>
          ~Recorded(attempts', last'.id)]_vars

\* C29: lock_feature by an agent fails and changes nothing while another
\* agent holds the feature; unlock_feature by an agent that does not hold
\* the feature fails and changes nothing; and the lock of a holder leaves
\* the table only by an operation on the holder (its unlock_feature, its
\* stop or its removal), never passing to another agent.
C29_OneHolderPerFeature ==
  [][/\ \A f \in DOMAIN feature_locks :
          (f \notin DOMAIN feature_locks' \/ feature_locks'[f] # feature_locks[f])
          => /\ f \notin DOMAIN feature_locks'
             /\ last'.w = feature_locks[f]
             /\ last'.op \in {"unlock_feature", "stop_agent", "remove_agent"}
             /\ last'.op = "unlock_feature" => last'.id = f
     /\ ( /\ last'.op = "lock_feature"
          /\ last'.id \in DOMAIN feature_locks
          /\ feature_locks[last'.id] # last'.w )
        => last'.res = "locked" /\ UNCHANGED feature_locks
     /\ ( /\ last'.op = "unlock_feature"
          /\ ~( /\ last'.id \in DOMAIN feature_locks
                /\ feature_locks[last'.id] = last'.w ) )
        => last'.res = "not_held" /\ UNCHANGED feature_locks]_vars

\* lock_feature by one agent has failed on a feature that the other agent
\* holds, while the caller holds another feature.
C29_Witness ==
  /\ last.op = "lock_feature" /\ last.res = "locked"
  /\ last.id \in DOMAIN feature_locks
  /\ feature_locks[last.id] # last.w
  /\ \E f \in DOMAIN feature_locks : feature_locks[f] = last.w

\* C30: when the loop, after a session in decomposition mode, removes the
\* marker .pending_decomposition or lowers the attempt count of the feature
\* it names, that feature is decomposed and has sub-features in the store.
C30_ClearedOnlyWhenDecomposed ==
  [][\A w \in Workers :
       ( /\ last'.op = "run_agent_session" /\ last'.w = w
         /\ agent[w].mode /\ pending # 0
         /\ \/ pending' # pending
            \/ CountOf(attempts', pending) < CountOf(attempts, pending) )
       => /\ pending \in Ids(store)
          /\ store[pending].is_decomposed
          /\ SubFeatures(store, pending) # {}]_vars

\* C31: when the agent is run again right after its loop has stopped at a
\* usage limit, the totals that check_usage_limits will read are below the
\* limit: the new run is not stopped by the usage of the run before.
C31_RerunStartsFresh ==
  [][( /\ last.op = "check_usage_limits" /\ last.res = "exceeded"
       /\ last'.op = "run_autonomous_agent" )
     => ~LimitExceeded(usage')]_vars

\* C32: a feature_create_bulk that answers an error for an item of its list
\* leaves the table as it was, whatever number of items came before that
\* item in the list.
C32_BulkCreateAllOrNothing ==
  [][last'.op = "create_bulk" /\ last'.res # "ok" => store' = store]_vars

\* feature_create_bulk has refused a list whose second item is invalid, in a
\* table that holds features of an earlier list.
C32_Witness ==
  /\ last.op = "create_bulk" /\ last.res = "missing_fields" /\ last.n >= 1
  /\ Ids(store) # {}

\* C33: when feature_mark_passing makes the parent of a sub-feature passing
\* and that parent is itself a sub-feature of a decomposed feature whose
\* sub-features all pass now, that feature is passing too when the call
\* returns.
C33_CascadeIsTransitive ==
  [][( /\ last'.op = "mark_passing" /\ last'.res = "parent_completed" )
     => LET p == store'[last'.id].parent_id
            g == store'[p].parent_id
        IN ( /\ g \in Ids(store')
             /\ store'[g].is_decomposed
             /\ AllPassing(store', g) )
           => store'[g].passes]_vars

\* C34: when the loop of an agent checks for completion while the table holds
\* features and none of them is left for feature_get_next (every feature
\* that is not decomposed is passing), the check answers "complete" and the
\* loop ends.
C34_NothingLeftEndsTheLoop ==
  [][\A w \in Workers :
       ( /\ last'.op = "check_completion_status" /\ last'.w = w
         /\ ~agent[w].first
         /\ Ids(store) # {}
         /\ ~AnyPending(store) )
       => last'.res = "complete" /\ agent'[w] = NoAgent]_vars

\* C35: no feature of the table is passing and in progress at once, whatever
\* the order in which the steps of the calls of two sessions fall.
C35_NeverPassingAndInProgress ==
  \A i \in Ids(store) : ~(store[i].passes /\ store[i].in_progress)

\* C36: in a table that started empty, no two features have the same
\* priority, whatever calls of feature_create_bulk and feature_decompose two
\* sessions have made and however their steps interleaved.
C36_PrioritiesAreDistinct ==
  \A i \in Ids(store) : \A j \in Ids(store) :
    i # j => store[i].priority # store[j].priority

\* C37: when stop_agent has returned for a worker, the row of that worker in
\* the registry has the status "stopped", no pid and no current feature id.
C37_StoppedRecordIsCleared ==
  last.op = "stop_agent" /\ last.res = "ok"
    => registry[last.w] = ProjectAgent("stopped", 0, 0)

\* C38: every record_feature_attempt that returns has added one to the
\* counter of its feature as the file held it just before the write, and has
\* left the counters of the other features as they were: no increment of
\* another process is lost.
C38_NoAttemptIsLost ==
  [][last'.op = "record_feature_attempt"
     => /\ CountOf(attempts', last'.id) = CountOf(attempts, last'.id) + 1
        /\ \A id \in 1..MaxRecordedFeatures :
             id # last'.id => CountOf(attempts', id) = CountOf(attempts, id)]_vars

====
